---- MODULE Spec2Model ----
(***************************************************************************)
(* A model of acid-store's chunked object engine (src/src/object/object.rs):*)
(* the Object handle that gives Read / Write / Seek / truncate access to   *)
(* the ordered list of immutable chunks recorded in an ObjectHandle.       *)
(*                                                                         *)
(* A chunk's plaintext is a sequence of bytes.  The BLAKE2 hash that       *)
(* identifies a chunk is collision-free by assumption, so a hash is        *)
(* represented by the data it identifies and the repository's read_chunk   *)
(* returns the data written under a hash.                                  *)
(***************************************************************************)
EXTENDS Integers, Sequences, FiniteSets, TLC

(***************************************************************************)
(* Bounds of the model.                                                    *)
(***************************************************************************)
\* Largest chunk the chunker emits.
MaxChunkSize == 2
\* Operations are explored while the object holds at most this many bytes.
MaxSize == 2

\* Two byte values: the one the chunker cuts after, and another.
Byte == {0, 1}

\* Longest buffer handed to write.
MaxWrite == MaxChunkSize
\* Longest buffer handed to read.
MaxRead == MaxChunkSize

\* The byte after which the content-defined chunker cuts a chunk.
CutByte == 0

Min(a, b) == IF a <= b THEN a ELSE b

\* Rust's slice[from..to] (0-based, half-open) of a sequence.
Slice(s, from, to) == SubSeq(s, from + 1, to)

\* All sequences over S of length lo..hi.
SeqsOf(S, lo, hi) == UNION {[1..n -> S] : n \in lo..hi}

(***************************************************************************)
(* Chunks and the chunk store.                                             *)
(***************************************************************************)
\* chunk_hash: the checksum of data; injective, represented by the data.
chunk_hash(data) == data

\* A Chunk descriptor {size, hash} for a piece of data.
Chunk(data) == [size |-> Len(data), hash |-> chunk_hash(data)]

\* ObjectRepository::write_chunk stores the data and returns its hash.
write_chunk(data) == chunk_hash(data)

\* ObjectRepository::read_chunk returns the data stored under a hash.
read_chunk(hash) == hash

\* Chunk::default(), the chunk of a default ChunkLocation.
DefaultChunk == [size |-> 0, hash |-> <<>>]

\* ChunkLocation::default(), the initial start_location of an Object.
DefaultLocation ==
    [chunk |-> DefaultChunk, start |-> 0, end |-> 0, position |-> 0, index |-> 0]

\* ObjectHandle::default(), the handle of a newly inserted key.
DefaultHandle == [size |-> 0, chunks |-> <<>>]

RECURSIVE SumSizes(_)
\* The fold of flush: the sum of the sizes of a chunk list.
SumSizes(chunks) ==
    IF chunks = <<>> THEN 0 ELSE Head(chunks).size + SumSizes(Tail(chunks))

RECURSIVE Content(_)
\* The logical byte content of a chunk list: the concatenation of its chunks.
Content(chunks) ==
    IF chunks = <<>> THEN <<>>
    ELSE read_chunk(Head(chunks).hash) \o Content(Tail(chunks))

(***************************************************************************)
(* The incremental content-defined chunker.                                *)
(***************************************************************************)
\* IncrementalChunker::new: nothing buffered, no complete chunk.
NewChunker == [buffer |-> <<>>, chunks |-> <<>>]

\* The boundary predicate: a chunk ends after CutByte or at the largest size.
IsBoundary(buf) == Len(buf) >= MaxChunkSize \/ buf[Len(buf)] = CutByte

\* Feed one byte; a detected boundary completes the buffered chunk.
Feed(ck, b) ==
    LET buf == Append(ck.buffer, b) IN
    IF IsBoundary(buf)
    THEN [buffer |-> <<>>, chunks |-> Append(ck.chunks, buf)]
    ELSE [buffer |-> buf, chunks |-> ck.chunks]

RECURSIVE WriteAll(_, _)
\* IncrementalChunker::write_all: feed the bytes in order.
WriteAll(ck, bytes) ==
    IF bytes = <<>> THEN ck ELSE WriteAll(Feed(ck, Head(bytes)), Tail(bytes))

\* IncrementalChunker::flush: the remaining buffered bytes become a chunk.
ChunkerFlush(ck) ==
    IF ck.buffer = <<>> THEN ck
    ELSE [buffer |-> <<>>, chunks |-> Append(ck.chunks, ck.buffer)]

\* Object::write_chunks: store the chunker's complete chunks, append their
\* descriptors to new_chunks and leave the chunker without complete chunks.
WriteChunks(ck, pending) ==
    [chunker |-> [buffer |-> ck.buffer, chunks |-> <<>>],
     new_chunks |-> pending \o
         [i \in 1..Len(ck.chunks) |->
             [size |-> Len(ck.chunks[i]), hash |-> write_chunk(ck.chunks[i])]]]

(***************************************************************************)
(* Chunk location.                                                         *)
(***************************************************************************)
RECURSIVE ScanUpper(_, _, _, _)
\* The loop of Object::current_chunk with < for <= in the test against the
\* end of the chunk.
ScanUpper(chunks, pos, index, chunk_start) ==
    IF index >= Len(chunks)
    THEN [chunk |-> DefaultChunk, start |-> 0, end |-> 0,
          position |-> pos, index |-> -1]
    ELSE LET chunk == chunks[index + 1]
             chunk_end == chunk_start + chunk.size
         IN IF pos >= chunk_start /\ pos < chunk_end
            THEN [chunk |-> chunk, start |-> chunk_start, end |-> chunk_end,
                  position |-> pos, index |-> index]
            ELSE ScanUpper(chunks, pos, index + 1, chunk_end)

RECURSIVE Scan(_, _, _, _)
\* The loop of Object::current_chunk from the chunk at 0-based index on,
\* chunk_start being the sum of the sizes of the chunks before it.  The
\* panic! after the loop is the location with index -1.
Scan(chunks, pos, index, chunk_start) ==
    IF index >= Len(chunks)
    THEN [chunk |-> DefaultChunk, start |-> 0, end |-> 0,
          position |-> pos, index |-> -1]
    ELSE LET chunk == chunks[index + 1]
             chunk_end == chunk_start + chunk.size
         IN IF pos >= chunk_start /\ pos <= chunk_end
            THEN [chunk |-> chunk, start |-> chunk_start, end |-> chunk_end,
                  position |-> pos, index |-> index]
            ELSE Scan(chunks, pos, index + 1, chunk_end)

\* Object::current_chunk: the location of the chunk at the seek position.
current_chunk(chunks, pos) == Scan(chunks, pos, 0, 0)

\* current_chunk returned a location (it did not panic).
Found(loc) == loc.index >= 0

\* ChunkLocation::relative_position.
relative_position(loc) == loc.position - loc.start

(***************************************************************************)
(* The state of one Object and of the ObjectHandle of its key.             *)
(***************************************************************************)
VARIABLES
    handle,          \* the ObjectHandle of the key: [size, chunks]
    chunker,         \* Object::chunker
    new_chunks,      \* Object::new_chunks
    start_location,  \* Object::start_location
    position,        \* Object::position
    dirty,           \* history: write was called since the last flush
    last,            \* history: the last operation, its arguments and result
    pre,             \* history: the state the last operation started from
    swf,             \* history: progress of a seek; write; flush sequence
    rt,              \* history: progress of a round trip on a new object
    tt,              \* history: progress of truncate(n); truncate(n)
    refcount,        \* the refcount of every chunk in the chunk store
    archive,         \* the bytes of the archive file
    hpc,             \* the statement Header::write has reached
    hw,              \* the locals of the running Header::write, and history
    hret,            \* history: what the last Header::write returned
    reads,           \* history: what read_chunk returned to the last verify
    repo,            \* the repository: its header and its transaction id
    strong,          \* the strong count of every Arc<Uuid> allocated
    savepoints,      \* the Savepoints handed out, in the order taken
    splast,          \* history: the last call on the repository
    bucket,          \* the objects of the S3 bucket, by key
    s3last,          \* history: the last call on the S3 store
    fs,              \* the FuseAdapter and the repository it borrows
    fslast           \* history: the last call on the FUSE adapter

\* The variables of an Object and of its properties.
objVars == <<handle, chunker, new_chunks, start_location, position,
             dirty, last, pre, swf, rt, tt, reads, refcount>>

\* The variables of the archive file and of Header::write.
hdrVars == <<archive, hpc, hw, hret>>

\* The variables of the repository and its savepoints.
spVars == <<repo, strong, savepoints, splast>>

\* The variables of the S3 bucket and its store.
s3Vars == <<bucket, s3last>>

\* The variables of the FUSE adapter.
fuseVars == <<fs, fslast>>

vars == <<objVars, hdrVars, spVars, s3Vars, fuseVars>>

\* The fields of the Object and the handle it borrows, as one record.
Self ==
    [handle |-> handle, chunker |-> chunker, new_chunks |-> new_chunks,
     start_location |-> start_location, position |-> position]

(***************************************************************************)
(* The operations, as functions from the state to a result and a state.    *)
(***************************************************************************)
\* A result: how the call ended ("Ok", "InvalidInput" or "panic"), the value
\* it returned, the bytes it copied into the caller's buffer, the state.
Result(res, ret, data, self) ==
    [res |-> res, ret |-> ret, data |-> data, self |-> self]

\* Vec::splice(start..end, with) on a list, for 0 <= start <= end <= Len.
Splice(list, start, end, with) ==
    SubSeq(list, 1, start) \o with \o SubSeq(list, end + 1, Len(list))

\* Object::flush without the replace of new_chunks by an empty list: the
\* descriptors spliced into the handle stay pending.
flush_keeping_pending(self) ==
    LET end_location == current_chunk(self.handle.chunks, self.position) IN
    IF ~Found(end_location) THEN Result("panic", 0, <<>>, self)
    ELSE
      LET last_chunk == read_chunk(end_location.chunk.hash)
          fed == WriteAll(self.chunker,
                     Slice(last_chunk, relative_position(end_location),
                           Len(last_chunk)))
          wc == WriteChunks(ChunkerFlush(fed), self.new_chunks)
          from == self.start_location.index
          to == end_location.index
          kept == [self EXCEPT !.chunker = wc.chunker,
                               !.new_chunks = wc.new_chunks]
      IN IF from > to
         THEN Result("panic", 0, <<>>, kept)
         ELSE LET chunks == Splice(self.handle.chunks, from, to, wc.new_chunks)
              IN Result("Ok", 0, <<>>,
                     [kept EXCEPT !.handle =
                         [size |-> SumSizes(chunks), chunks |-> chunks]])

\* Object::flush.
flush(self) ==
    LET end_location == current_chunk(self.handle.chunks, self.position) IN
    IF ~Found(end_location) THEN Result("panic", 0, <<>>, self)
    ELSE
      LET last_chunk == read_chunk(end_location.chunk.hash)
          fed == WriteAll(self.chunker,
                     Slice(last_chunk, relative_position(end_location),
                           Len(last_chunk)))
          wc == WriteChunks(ChunkerFlush(fed), self.new_chunks)
          from == self.start_location.index
          to == end_location.index
          drained == [self EXCEPT !.chunker = wc.chunker, !.new_chunks = <<>>]
      IN IF from > to
         THEN \* Vec::splice panics on a range that starts after its end
              Result("panic", 0, <<>>, drained)
         ELSE LET chunks == Splice(self.handle.chunks, from, to, wc.new_chunks)
              IN Result("Ok", 0, <<>>,
                     [drained EXCEPT !.handle =
                         [size |-> SumSizes(chunks), chunks |-> chunks]])

\* Object::write.
write(self, buf) ==
    LET first == self.new_chunks = <<>>
        loc == current_chunk(self.handle.chunks, self.position)
    IN IF first /\ ~Found(loc) THEN Result("panic", 0, <<>>, self)
       ELSE
         LET first_chunk == read_chunk(loc.chunk.hash)
             primed == IF first
                       THEN WriteAll(self.chunker,
                                Slice(first_chunk, 0, relative_position(loc)))
                       ELSE self.chunker
             wc == WriteChunks(WriteAll(primed, buf), self.new_chunks)
         IN Result("Ok", Len(buf), <<>>,
                [self EXCEPT
                    !.start_location = IF first THEN loc ELSE @,
                    !.chunker = wc.chunker,
                    !.new_chunks = wc.new_chunks,
                    !.position = @ + Len(buf)])

\* Object::write_chunks when write_chunk fails for the chunker's complete
\* chunk number at: the descriptors of the chunks before it were pushed,
\* and the chunks taken from the chunker are dropped with the early return.
WriteChunksFailing(ck, pending, at) ==
    [chunker |-> [buffer |-> ck.buffer, chunks |-> <<>>],
     new_chunks |-> pending \o
         [i \in 1..(at - 1) |->
             [size |-> Len(ck.chunks[i]), hash |-> write_chunk(ck.chunks[i])]]]

\* Object::write when a call to the chunk store fails: read_chunk for at =
\* 0, the write_chunk of the complete chunk number at otherwise.  Where
\* the call it names is not made, nothing fails and write returns.
write_failing(self, buf, at) ==
    LET first == self.new_chunks = <<>>
        loc == current_chunk(self.handle.chunks, self.position)
    IN IF first /\ ~Found(loc) THEN Result("panic", 0, <<>>, self)
       ELSE IF at = 0
       THEN IF first
            THEN Result("Io", 0, <<>>, [self EXCEPT !.start_location = loc])
            ELSE write(self, buf)
       ELSE
         LET first_chunk == read_chunk(loc.chunk.hash)
             primed == IF first
                       THEN WriteAll(self.chunker,
                                Slice(first_chunk, 0, relative_position(loc)))
                       ELSE self.chunker
             fed == WriteAll(primed, buf)
             wc == WriteChunksFailing(fed, self.new_chunks, at)
         IN IF at > Len(fed.chunks) THEN write(self, buf)
            ELSE Result("Io", 0, <<>>,
                     [self EXCEPT
                         !.start_location = IF first THEN loc ELSE @,
                         !.chunker = wc.chunker,
                         !.new_chunks = wc.new_chunks])

\* Object::flush with the splice done before write_chunks: when write_chunk
\* fails the handle already holds the chunks written so far.
flush_failing_spliced(self, at) ==
    LET end_location == current_chunk(self.handle.chunks, self.position) IN
    IF ~Found(end_location) THEN Result("panic", 0, <<>>, self)
    ELSE IF at = 0 THEN Result("Io", 0, <<>>, self)
    ELSE
      LET last_chunk == read_chunk(end_location.chunk.hash)
          fed == ChunkerFlush(WriteAll(self.chunker,
                     Slice(last_chunk, relative_position(end_location),
                           Len(last_chunk))))
          wc == WriteChunksFailing(fed, self.new_chunks, at)
          from == self.start_location.index
          to == end_location.index
          chunks == IF from > to THEN self.handle.chunks
                    ELSE Splice(self.handle.chunks, from, to, wc.new_chunks)
      IN IF at > Len(fed.chunks) THEN flush(self)
         ELSE Result("Io", 0, <<>>,
                  [self EXCEPT !.chunker = wc.chunker,
                               !.new_chunks = <<>>,
                               !.handle = [size |-> SumSizes(chunks),
                                           chunks |-> chunks]])

\* Object::flush when a call to the chunk store fails: read_chunk for at =
\* 0, the write_chunk of the complete chunk number at otherwise.  Where
\* the call it names is not made, nothing fails and flush returns.
flush_failing(self, at) ==
    LET end_location == current_chunk(self.handle.chunks, self.position) IN
    IF ~Found(end_location) THEN Result("panic", 0, <<>>, self)
    ELSE IF at = 0 THEN Result("Io", 0, <<>>, self)
    ELSE
      LET last_chunk == read_chunk(end_location.chunk.hash)
          fed == ChunkerFlush(WriteAll(self.chunker,
                     Slice(last_chunk, relative_position(end_location),
                           Len(last_chunk))))
          wc == WriteChunksFailing(fed, self.new_chunks, at)
      IN IF at > Len(fed.chunks) THEN flush(self)
         ELSE Result("Io", 0, <<>>,
                  [self EXCEPT !.chunker = wc.chunker,
                               !.new_chunks = wc.new_chunks])

\* Drop for Object without its call of flush.
drop_without_flush(self) == Result("Ok", 0, <<>>, self)

\* Drop for Object: self.flush().ok().  The Result of flush is turned into
\* an Option that nobody reads; a panic of flush is a panic of the drop.
drop(self) ==
    LET r == flush(self)
    IN Result(IF r.res = "panic" THEN "panic" ELSE "Ok", 0, <<>>, r.self)

\* Drop for Object when a call of its flush to the chunk store fails.
drop_failing(self, at) ==
    LET r == flush_failing(self, at)
    IN Result(IF r.res = "panic" THEN "panic" ELSE "Ok", 0, <<>>, r.self)

\* Object::read_chunk followed by the copy of Object::read into a buffer of
\* len bytes: copy_from_slice panics unless the slice has exactly len bytes.
read(self, len) ==
    LET loc == current_chunk(self.handle.chunks, self.position) IN
    IF ~Found(loc) THEN Result("panic", 0, <<>>, self)
    ELSE
      LET start == relative_position(loc)
          end == Min(start + len, loc.chunk.size)
          next_chunk == Slice(read_chunk(loc.chunk.hash), start, end)
      IN IF Len(next_chunk) # len THEN Result("panic", 0, <<>>, self)
         ELSE Result("Ok", Len(next_chunk), next_chunk,
                  [self EXCEPT !.position = @ + Len(next_chunk)])

\* new_position without the clamp of SeekFrom::Start to the object size.
new_position_unclamped(whence, offset, object_size, pos) ==
    CASE whence = "Start" -> offset
      [] whence = "End" ->
            IF offset > object_size THEN -1
            ELSE Min(object_size, object_size - offset)
      [] whence = "Current" ->
            IF pos + offset < 0 THEN -1
            ELSE Min(object_size, pos + offset)

\* new_position without the clamp of SeekFrom::End to the object size.
new_position_end_unclamped(whence, offset, object_size, pos) ==
    CASE whence = "Start" -> Min(object_size, offset)
      [] whence = "End" ->
            IF offset > object_size THEN -1
            ELSE object_size - offset
      [] whence = "Current" ->
            IF pos + offset < 0 THEN -1
            ELSE Min(object_size, pos + offset)

\* The match of Object::seek on the SeekFrom: the new position, or -1 for
\* the InvalidInput error.
new_position(whence, offset, object_size, pos) ==
    CASE whence = "Start" -> Min(object_size, offset)
      [] whence = "End" ->
            IF offset > object_size THEN -1
            ELSE Min(object_size, object_size - offset)
      [] whence = "Current" ->
            IF pos + offset < 0 THEN -1
            ELSE Min(object_size, pos + offset)

\* Object::seek with the position reset to 0 on the InvalidInput return.
seek_resetting_position(self, whence, offset) ==
    LET f == flush(self) IN
    IF f.res # "Ok" THEN f
    ELSE LET np == new_position(whence, offset, f.self.handle.size,
                       f.self.position)
         IN IF np < 0
            THEN Result("InvalidInput", 0, <<>>,
                        [f.self EXCEPT !.position = 0])
            ELSE Result("Ok", np, <<>>, [f.self EXCEPT !.position = np])

\* Object::seek.
seek(self, whence, offset) ==
    LET f == flush(self) IN
    IF f.res # "Ok" THEN f
    ELSE LET np == new_position(whence, offset, f.self.handle.size,
                       f.self.position)
         IN IF np < 0 THEN Result("InvalidInput", 0, <<>>, f.self)
            ELSE Result("Ok", np, <<>>, [f.self EXCEPT !.position = np])

\* Object::truncate.
truncate(self, length) ==
    LET f == flush(self) IN
    IF f.res # "Ok" \/ length >= f.self.handle.size THEN f
    ELSE
      LET end_location == current_chunk(f.self.handle.chunks, length) IN
      IF ~Found(end_location)
      THEN Result("panic", 0, <<>>, [f.self EXCEPT !.position = length])
      ELSE
        LET last_chunk == read_chunk(end_location.chunk.hash)
            sliced == Slice(last_chunk, 0,
                          relative_position(end_location))
            new_last_chunk ==
                [hash |-> write_chunk(sliced), size |-> Len(sliced)]
            kept == SubSeq(f.self.handle.chunks, 1, end_location.index)
        IN Result("Ok", 0, <<>>,
               [f.self EXCEPT
                   !.position = length,
                   !.handle.chunks = Append(kept, new_last_chunk)])

\* Object::verify: every chunk's data hashes to the recorded checksum; the
\* returned bool is 1 for true and 0 for false.
verify(self) ==
    Result("Ok",
        IF \A i \in 1..Len(self.handle.chunks) :
               chunk_hash(read_chunk(self.handle.chunks[i].hash))
                   = self.handle.chunks[i].hash
        THEN 1 ELSE 0,
        <<>>, self)

\* The data a damaged store is seen to return for a chunk.
DamagedData == {<<>>, <<0>>, <<1>>, <<1, 0>>}

\* What ObjectRepository::read_chunk can return to verify for a hash: the
\* data stored under it, other data when the store is damaged, or an error.
ReadOutcomes(hash) ==
    [res : {"Ok"}, data : {read_chunk(hash)} \cup DamagedData]
        \cup {[res |-> "Io", data |-> <<>>]}

RECURSIVE verify_inverted_from(_, _, _)
\* The loop of Object::verify with == for != in the comparison.
verify_inverted_from(self, outcomes, i) ==
    IF i > Len(self.handle.chunks) THEN Result("Ok", 1, <<>>, self)
    ELSE IF outcomes[i].res # "Ok" THEN Result(outcomes[i].res, 0, <<>>, self)
    ELSE IF self.handle.chunks[i].hash = chunk_hash(outcomes[i].data)
         THEN Result("Ok", 0, <<>>, self)
         ELSE verify_inverted_from(self, outcomes, i + 1)

RECURSIVE verify_from(_, _, _)
\* The loop of Object::verify from the chunk i on, outcomes[j] being what
\* read_chunk returns for the chunk j: the error of a failed read is
\* returned, a chunk whose data does not hash to its checksum ends the
\* loop with false (0), the end of the list gives true (1).
verify_from(self, outcomes, i) ==
    IF i > Len(self.handle.chunks) THEN Result("Ok", 1, <<>>, self)
    ELSE IF outcomes[i].res # "Ok" THEN Result(outcomes[i].res, 0, <<>>, self)
    ELSE IF self.handle.chunks[i].hash # chunk_hash(outcomes[i].data)
         THEN Result("Ok", 0, <<>>, self)
         ELSE verify_from(self, outcomes, i + 1)

\* Object::size.
size(self) == self.handle.size

(***************************************************************************)
(* The refcounts of the chunk store.                                       *)
(***************************************************************************)
\* The hashes of the chunks the store can hold.
ChunkHashes == {chunk_hash(d) : d \in SeqsOf(Byte, 0, MaxChunkSize)}

\* The number of references to every chunk from a chunk list.
References(chunks) ==
    [h \in ChunkHashes |->
        Cardinality({i \in 1..Len(chunks) : chunks[i].hash = h})]

\* The refcounts where they are not followed.
NoCounts == [h \in ChunkHashes |-> 0]

RECURSIVE ref_written(_, _)
\* The refcounts after write_chunk was called for each of the descriptors
\* written: a chunk that is new gets refcount 1, one that is present gets
\* its refcount incremented.
ref_written(counts, written) ==
    IF written = <<>> THEN counts
    ELSE ref_written([counts EXCEPT ![Head(written).hash] = @ + 1],
                     Tail(written))

\* The descriptors of the chunks Object::write passes to write_chunk.
write_writes(self, buf) ==
    LET r == write(self, buf)
    IN SubSeq(r.self.new_chunks, Len(self.new_chunks) + 1,
              Len(r.self.new_chunks))

\* The descriptors of the chunks Object::flush passes to write_chunk.
flush_writes(self) ==
    LET end_location == current_chunk(self.handle.chunks, self.position) IN
    IF ~Found(end_location) THEN <<>>
    ELSE
      LET last_chunk == read_chunk(end_location.chunk.hash)
          fed == WriteAll(self.chunker,
                     Slice(last_chunk, relative_position(end_location),
                           Len(last_chunk)))
      IN WriteChunks(ChunkerFlush(fed), <<>>).new_chunks

\* The descriptors of the chunks Object::truncate passes to write_chunk:
\* those of its flush, then the sliced last chunk.
truncate_writes(self, length) ==
    LET f == flush(self) IN
    IF f.res # "Ok" \/ length >= f.self.handle.size THEN flush_writes(self)
    ELSE
      LET end_location == current_chunk(f.self.handle.chunks, length) IN
      IF ~Found(end_location) THEN flush_writes(self)
      ELSE
        LET sliced == Slice(read_chunk(end_location.chunk.hash), 0,
                          relative_position(end_location))
        IN Append(flush_writes(self),
                  [hash |-> write_chunk(sliced), size |-> Len(sliced)])

(***************************************************************************)
(* History kept for the properties.                                        *)
(***************************************************************************)
\* No operation has been called yet.
NoOp ==
    [op |-> "none", whence |-> "", n |-> 0, buf |-> <<>>,
     res |-> "Ok", ret |-> 0, data |-> <<>>]

NoSwf == [stage |-> 0, B |-> <<>>, p |-> 0, W |-> <<>>]

NoRt == [stage |-> 0, B |-> <<>>, out |-> <<>>]

NoTt == [stage |-> 0, n |-> 0, content |-> <<>>, size |-> 0, position |-> 0]

\* seek(Start(p)) on an object with content B and no pending write (stage
\* 1), then write(W) (stage 2), then flush (stage 3), directly in sequence.
NextSwf(op, whence, n, buf, r) ==
    CASE op = "seek" /\ whence = "Start" /\ r.res = "Ok" /\ ~dirty
             /\ n <= Len(Content(handle.chunks)) ->
            [stage |-> 1, B |-> Content(handle.chunks), p |-> n, W |-> <<>>]
      [] op = "write" /\ swf.stage = 1 -> [swf EXCEPT !.stage = 2, !.W = buf]
      [] op = "flush" /\ swf.stage = 2 -> [swf EXCEPT !.stage = 3]
      [] OTHER -> NoSwf

\* write(B) as the first call on a newly inserted object (stage 1), flush
\* (stage 2), seek(Start(0)) (stage 3), then reads (stage 4) until one
\* returns 0 (stage 5); out collects the bytes read.
NextRt(op, whence, n, buf, r) ==
    CASE op = "write" /\ last.op = "none" /\ handle = DefaultHandle ->
            [stage |-> 1, B |-> buf, out |-> <<>>]
      [] op = "flush" /\ rt.stage = 1 -> [rt EXCEPT !.stage = 2]
      [] op = "seek" /\ whence = "Start" /\ n = 0 /\ rt.stage = 2 ->
            [rt EXCEPT !.stage = 3]
      [] op = "read" /\ n > 0 /\ rt.stage \in {3, 4} ->
            [rt EXCEPT !.stage = IF r.res = "Ok" /\ r.ret = 0 THEN 5 ELSE 4,
                       !.out = @ \o r.data]
      [] OTHER -> NoRt

\* truncate(n) returned Ok (stage 1, with the state it left) and the next
\* call is truncate(n) again (stage 2).
NextTt(op, whence, n, buf, r) ==
    CASE op = "truncate" /\ tt.stage = 1 /\ tt.n = n -> [tt EXCEPT !.stage = 2]
      [] op = "truncate" /\ r.res = "Ok" ->
            [stage |-> 1, n |-> n, content |-> Content(r.self.handle.chunks),
             size |-> r.self.handle.size, position |-> r.self.position]
      [] OTHER -> NoTt

(***************************************************************************)
(* The archive file and its header.                                        *)
(***************************************************************************)
\* size_of::<u64>(): the bytes of the pointer at offset 0 and of the
\* length prefix of a header.
U64Size == 8

\* The size of a block of the archive.
BLOCK_SIZE == 4

\* n bytes of padding.
Zeros(n) == [i \in 1..n |-> 0]

\* A u64 that is past the end of every archive explored stands for all the
\* values that do not fit the integers of the model.
TooLarge == 256 ^ 3

\* u64::to_be_bytes, for n < 2^32.
to_be_bytes(n) ==
    [i \in 1..U64Size |-> IF i <= 4 THEN 0 ELSE (n \div (256 ^ (8 - i))) % 256]

\* u64::from_be_bytes.
from_be_bytes(b) ==
    IF \E i \in 1..5 : b[i] # 0 THEN TooLarge
    ELSE b[6] * 65536 + b[7] * 256 + b[8]

\* The names of the entries a header can hold.
EntryNames == {1, 2}

\* A Header: its entries, in the order of serialization.
Headers ==
    {h \in SeqsOf(EntryNames, 0, Cardinality(EntryNames)) :
        \A i, j \in 1..Len(h) : i < j => h[i] < h[j]}

\* encode::to_vec(&header): the marker of a map of Len(h) entries (0x80 + n
\* in MessagePack), then the entries.
encode_to_vec(h) == <<128 + Len(h)>> \o h

\* decode::from_read on the bytes given: an error unless they start with
\* the marker of a map and hold all its entries; bytes after the map are
\* not read.
decode_from_read(bytes) ==
    IF bytes = <<>> \/ bytes[1] < 128 \/ bytes[1] - 128 > Len(bytes) - 1
    THEN [res |-> "Deserialize", header |-> <<>>]
    ELSE [res |-> "Ok", header |-> SubSeq(bytes, 2, 1 + bytes[1] - 128)]

\* HeaderAddress.
HeaderAddress(offset, header_size, archive_size) ==
    [offset |-> offset, header_size |-> header_size,
     archive_size |-> archive_size]

\* What Header::read returns when it fails.
ReadError(res) ==
    [res |-> res, header |-> <<>>, address |-> HeaderAddress(0, 0, 0)]

\* Header::read on the bytes of an archive.
header_read(file) ==
    IF Len(file) < U64Size THEN ReadError("Io")
    ELSE
      LET offset == from_be_bytes(SubSeq(file, 1, U64Size)) IN
      IF offset + U64Size > Len(file) THEN ReadError("Io")
      ELSE
        LET header_size ==
                from_be_bytes(SubSeq(file, offset + 1, offset + U64Size))
            taken == SubSeq(file, offset + U64Size + 1,
                         Min(offset + U64Size + header_size, Len(file)))
            decoded == decode_from_read(taken)
        IN IF decoded.res # "Ok" THEN ReadError(decoded.res)
           ELSE [res |-> "Ok", header |-> decoded.header,
                 address |-> HeaderAddress(offset, header_size, Len(file))]

\* The offset of the first block: the blocks follow the pointer.
BLOCK_OFFSET == U64Size

\* BlockAddress::range(start_offset, length): the blocks that hold the
\* length bytes from start_offset, each by its index among the blocks.
BlockAddress_range(start_offset, length) ==
    {(o - BLOCK_OFFSET) \div BLOCK_SIZE :
        o \in {x \in start_offset..(start_offset + length - 1) :
                  x >= BLOCK_OFFSET}}

\* HeaderAddress::blocks.
blocks(address) == BlockAddress_range(BLOCK_OFFSET, address.archive_size)

\* HeaderAddress::header_blocks.
header_blocks(address) ==
    BlockAddress_range(address.offset, address.header_size)

\* Header::data_blocks: the blocks of the data of every entry that has
\* data.  The entries explored hold no data (ArchiveEntry::data is None),
\* which the filter_map drops.
data_blocks(header) ==
    UNION {{} : i \in 1..Len(header)}

\* pad_to_block_size: zero bytes appended up to the next multiple of the
\* block size.
pad_to_block_size(file) ==
    file \o Zeros((BLOCK_SIZE - (Len(file) % BLOCK_SIZE)) % BLOCK_SIZE)

\* An archive no header was written to: the pointer alone.
NewArchive == Zeros(U64Size)

\* No Header::write is running.
NoWrite ==
    [header |-> <<>>, offset |-> 0, start |-> <<>>, header_start |-> 0,
     before |-> ReadError("Io"), at |-> "idle", torn |-> FALSE, calls |-> 0]

\* No Header::write has returned.
NoReturn ==
    [called |-> FALSE, header |-> <<>>, header_start |-> 0, start |-> <<>>,
     address |-> HeaderAddress(0, 0, 0)]

\* The archive is not in use.
HeaderIdle ==
    /\ archive = NewArchive
    /\ hpc = "idle"
    /\ hw = NoWrite
    /\ hret = NoReturn

(***************************************************************************)
(* The repository and its savepoints.                                      *)
(***************************************************************************)
\* Savepoint { header, transaction_id }: the header is a snapshot behind an
\* Arc, the transaction id a Weak to the Arc<Uuid> numbered transaction_id.
Savepoint(header, transaction_id) ==
    [header |-> header, transaction_id |-> transaction_id]

\* Savepoint::is_valid with is_none for is_some.
is_valid_inverted(savepoint) == strong[savepoint.transaction_id] = 0

\* Savepoint::is_valid asking whether the allocation of the Arc is still
\* there (which the Weak itself keeps alive) instead of upgrading it.
is_valid_allocated(savepoint) ==
    savepoint.transaction_id \in 1..Len(strong)

\* Savepoint::is_valid: Weak::upgrade gives Some while the Arc has a strong
\* reference.
is_valid(savepoint) == strong[savepoint.transaction_id] > 0

\* The derived Clone of Savepoint: a clone of the Arc of the header and a
\* clone of the Weak, which refers to the same transaction id.
clone(savepoint) == Savepoint(savepoint.header, savepoint.transaction_id)

\* No call was made on the repository yet.
NoCall ==
    [op |-> "none", arg |-> 0, ret |-> FALSE, header |-> <<>>,
     committed |-> <<>>, valid |-> <<>>, prev |-> 0]

\* A repository just opened on the empty header, with the Arc of its first
\* transaction id.
NewRepo ==
    [exists |-> TRUE, header |-> <<>>, committed |-> <<>>,
     transaction_id |-> 1, transactions |-> 0]

\* The repository is not in use.
SavepointIdle ==
    /\ repo = NewRepo
    /\ strong = <<1>>
    /\ savepoints = <<>>
    /\ splast = NoCall

(***************************************************************************)
(* The S3 bucket and S3Store.                                              *)
(***************************************************************************)
\* The block IDs explored.
MaxBlocks == 2

BlockIds == 1..MaxBlocks

\* The length of a UUID in bytes.
UuidSize == 16

\* The UUID whose bytes are all b.
Uuid(b) == [i \in 1..UuidSize |-> b]

CURRENT_VERSION == Uuid(1)

NOT_FOUND_CODE == 404

\* The key of the version object, and format!("block/{}", id).
VersionKey == <<"version">>

block_path(id) == <<"block", id>>

Keys == {VersionKey} \cup {block_path(id) : id \in BlockIds}

\* No object under a key, and an object with the bytes data.
NoObject == [present |-> FALSE, data |-> <<>>]

Stored(data) == [present |-> TRUE, data |-> data]

\* The body of the response S3 gives for a key that has no object.
NotFoundBody == <<60, 63>>

\* Bucket::get_object: the bytes of the response and its status code.
get_object(b, key) ==
    IF b[key].present THEN [bytes |-> b[key].data, code |-> 200]
    ELSE [bytes |-> NotFoundBody, code |-> NOT_FOUND_CODE]

\* Bucket::put_object and Bucket::delete_object.
put_object(b, key, data) == [b EXCEPT ![key] = Stored(data)]

delete_object(b, key) == [b EXCEPT ![key] = NoObject]

\* Bucket::list_all(prefix), flattened to the keys of its pages.
list_all(b, prefix) == {key \in Keys : b[key].present /\ Head(key) = prefix}

\* Uuid::from_slice(bytes).ok(): a UUID for exactly UuidSize bytes.
from_slice(bytes) ==
    IF Len(bytes) = UuidSize THEN [some |-> TRUE, uuid |-> bytes]
    ELSE [some |-> FALSE, uuid |-> <<>>]

OpenOption == {"CREATE", "CREATE_NEW", "TRUNCATE"}

\* No request to S3 fails.
NoFault == [at |-> "none", done |-> {}]

\* The requests of open that can fail: delete fails after the objects of
\* done were deleted.
Faults ==
    {[at |-> a, done |-> {}] : a \in {"get", "put", "list"}}
        \cup {[at |-> "delete", done |-> {block_path(id) : id \in ids}] :
                  ids \in SUBSET BlockIds}

\* The result of a call on the store and the bucket it leaves.
S3Result(res, b) == [res |-> res, bucket |-> b]

RECURSIVE delete_all(_, _)
\* delete_object for each of the keys.
delete_all(b, keys) ==
    IF keys = {} THEN b
    ELSE LET key == CHOOSE k \in keys : TRUE
         IN delete_all(delete_object(b, key), keys \ {key})

\* The end of S3Store::open, from the test of TRUNCATE.
open_truncate(b, options, fault) ==
    IF "TRUNCATE" \notin options THEN S3Result("Ok", b)
    ELSE IF fault.at = "list" THEN S3Result("Store", b)
    ELSE LET block_paths == list_all(b, "block") IN
         IF fault.at = "delete" /\ fault.done \subseteq block_paths
                /\ fault.done # block_paths
         THEN S3Result("Store", delete_all(b, fault.done))
         ELSE S3Result("Ok", delete_all(b, block_paths))

\* S3Store::open with TRUNCATE acted on before the version is examined.
open_truncate_first(b, options, fault) ==
    LET t == open_truncate(b, options, fault)
        version == from_slice(get_object(t.bucket, VersionKey).bytes)
    IN IF t.res # "Ok" THEN t
       ELSE IF version.some /\ version.uuid = CURRENT_VERSION
       THEN IF "CREATE_NEW" \in options
            THEN S3Result("AlreadyExists", t.bucket)
            ELSE t
       ELSE IF options \cap {"CREATE", "CREATE_NEW"} # {}
       THEN S3Result("Ok", put_object(t.bucket, VersionKey, CURRENT_VERSION))
       ELSE S3Result("UnsupportedFormat", t.bucket)

\* S3Store::open where TRUNCATE deletes every object of the bucket.
open_truncate_all(b, options, fault) ==
    LET version == from_slice(get_object(b, VersionKey).bytes) IN
    IF version.some /\ version.uuid = CURRENT_VERSION
    THEN IF "CREATE_NEW" \in options
         THEN S3Result("AlreadyExists", b)
         ELSE IF "TRUNCATE" \in options
              THEN S3Result("Ok", [key \in Keys |-> NoObject])
              ELSE S3Result("Ok", b)
    ELSE IF options \cap {"CREATE", "CREATE_NEW"} # {}
    THEN IF "TRUNCATE" \in options
         THEN S3Result("Ok", [key \in Keys |-> NoObject])
         ELSE S3Result("Ok", put_object(b, VersionKey, CURRENT_VERSION))
    ELSE S3Result("UnsupportedFormat", b)

\* S3Store::open.
open(b, options, fault) ==
    IF fault.at = "get" THEN S3Result("Store", b)
    ELSE
      LET version == from_slice(get_object(b, VersionKey).bytes) IN
      IF version.some /\ version.uuid = CURRENT_VERSION
      THEN IF "CREATE_NEW" \in options
           THEN S3Result("AlreadyExists", b)
           ELSE open_truncate(b, options, fault)
      ELSE IF options \cap {"CREATE", "CREATE_NEW"} # {}
      THEN IF fault.at = "put" THEN S3Result("Store", b)
           ELSE open_truncate(put_object(b, VersionKey, CURRENT_VERSION),
                              options, fault)
      ELSE S3Result("UnsupportedFormat", b)

\* S3Store::write_block, remove_block.
write_block(b, id, data) == put_object(b, block_path(id), data)

remove_block(b, id) == delete_object(b, block_path(id))

\* S3Store::read_block: None for the status code of a missing object.
read_block(b, id) ==
    LET got == get_object(b, block_path(id)) IN
    IF got.code = NOT_FOUND_CODE THEN [some |-> FALSE, data |-> <<>>]
    ELSE [some |-> TRUE, data |-> got.bytes]

\* S3Store::list_blocks: the UUID parsed from each key after "block/".
list_blocks(b) == {key[2] : key \in list_all(b, "block")}

\* The version objects a bucket can hold when it is opened: none, the
\* current format, another format, and bytes that are not a UUID.
StoredVersions == {NoObject, Stored(CURRENT_VERSION), Stored(Uuid(2)), Stored(<<2>>)}

\* The data of a block.
BlockData == {<<b>> : b \in Byte}

\* No call on the store yet.
NoS3Call ==
    [op |-> "none", options |-> {}, fault |-> NoFault, res |-> "Ok",
     before |-> [key \in Keys |-> NoObject], store |-> FALSE,
     truncated |-> FALSE, after_truncate |-> FALSE]

\* No bucket is in use.
S3Idle ==
    /\ bucket = [key \in Keys |-> NoObject]
    /\ s3last = NoS3Call

(***************************************************************************)
(* The FUSE adapter over a file repository: the entries of the repository, *)
(* the inode table, the handle table, the open Objects and the open        *)
(* directories.                                                            *)
(***************************************************************************)
\* The file names of the root directory.
Names == {"a", "b"}

\* Longest content of a file.
MaxFile == 2

\* The handles open at one time.
MaxHandles == 1

\* The most directory entries that fit in one reply of readdir.
MaxReply == 2

\* The readdir calls of one enumeration.
MaxReaddirs == 3

\* The path of the root directory; a path is the sequence of its names.
EMPTY_PARENT == <<>>

\* The inode numbers: the root directory and one for every name.
Inodes == 1..(1 + Cardinality(Names))

\* The flags of open that change what read and write do.
OpenFlags == {{}, {"O_APPEND"}, {"O_SYNC", "O_NOATIME"}}

\* fn with key k set to value v.
Put(fn, k, v) ==
    [x \in DOMAIN fn \cup {k} |-> IF x = k THEN v ELSE fn[x]]

\* fn without key k.
Remove(fn, k) == [x \in DOMAIN fn \ {k} |-> fn[x]]

\* An entry of the repository of type File with its content, and the entry
\* of a directory.
File(content) == [file_type |-> "File", content |-> content]

Directory == [file_type |-> "Directory", content |-> <<>>]

\* FileRepo::exists, is_file, is_directory and list on the entries of f.
exists(f, path) == path \in DOMAIN f.repo

is_file(f, path) == exists(f, path) /\ f.repo[path].file_type = "File"

is_directory(f, path) ==
    exists(f, path) /\ f.repo[path].file_type = "Directory"

list(f, path) ==
    {p \in DOMAIN f.repo : Len(p) = Len(path) + 1
                             /\ SubSeq(p, 1, Len(path)) = path}

\* The None of an Option of a path, of an inode and of a HandleInfo.
NoPath == <<"/">>

NoInode == CHOOSE n \in 0..(1 + Cardinality(Names)) : n \notin Inodes

NoHandle == [handle_type |-> "None", flags |-> {}, ino |-> NoInode]

\* InodeTable::path: the path of an inode, None for an inode not in the
\* table.
inodes_path(f, ino) ==
    IF ino \in DOMAIN f.inodes THEN f.inodes[ino] ELSE NoPath

\* InodeTable::inode: the inode of a path, None for a path not in the
\* table.
inodes_inode(f, path) ==
    IF \E ino \in DOMAIN f.inodes : f.inodes[ino] = path
    THEN CHOOSE ino \in DOMAIN f.inodes : f.inodes[ino] = path
    ELSE NoInode

\* FuseAdapter::child_path.
child_path(f, parent_inode, name) ==
    IF inodes_path(f, parent_inode) = NoPath THEN NoPath
    ELSE Append(inodes_path(f, parent_inode), name)

\* HandleTable::info and HandleTable::close; ino is history, the inode the
\* handle was opened on.
handles_info(f, fh) ==
    IF fh \in DOMAIN f.handles THEN f.handles[fh] ELSE NoHandle

handles_close(f, fh) == [f EXCEPT !.handles = Remove(@, fh)]

\* content with bytes written over it from offset start on.
Patch(content, start, bytes) ==
    Slice(content, 0, start) \o bytes
        \o Slice(content, start + Len(bytes), Len(content))

\* FileRepo::open: an Object on the entry of path; staged is the content
\* of the entry as the Object has it, with what was written through it and
\* not committed. The seek position of the Object is not kept: read and
\* write seek before they use it.
repo_open(f, path) == [key |-> path, staged |-> f.repo[path].content]

\* Object::commit of the Object of ino: the staged content becomes the
\* content of the entry.
object_commit(f, ino) ==
    LET object == f.objects[ino] IN
    IF ~exists(f, object.key) THEN f
    ELSE [f EXCEPT !.repo[object.key].content = object.staged]

\* Object::seek of the Object of ino: it commits what is staged, and the
\* position it returns is min(size, to).
object_seek(f, ino, to) == object_commit(f, ino)

seek_position(f, ino, to) == Min(Len(f.objects[ino].staged), to)

\* Object::write of the Object of ino at the position at: data is staged. A write
\* that fails in the chunk store leaves the data staged too.
object_write(f, ino, at, data) ==
    [f EXCEPT !.objects[ino].staged = Patch(@, at, data)]

\* The Object of ino of the map objects, opened when there is none.
object_entry(f, ino) ==
    IF ino \in DOMAIN f.objects THEN f
    ELSE [f EXCEPT !.objects = Put(@, ino, repo_open(f, f.inodes[ino]))]

\* What a handler has replied (reply "panic" for a handler that panicked),
\* and the adapter it leaves.
FuseReply(reply, value, data, f) ==
    [reply |-> reply, value |-> value, data |-> data, fs |-> f]

\* The requests of write on the repository that can fail: those of every
\* write, and the commits of a write through a handle with flags.
FuseFaults(flags) ==
    {"none", "seek", "entry", "write", "set_metadata"}
        \cup (IF flags \cap {"O_SYNC", "O_DSYNC"} = {} THEN {}
              ELSE {"object_commit", "repo_commit"})

\* HandleTable::open: the handle fh, which was free, is open.
handles_open(f, fh, flags, handle_type, ino) ==
    [f EXCEPT !.handles =
        Put(@, fh, [handle_type |-> handle_type, flags |-> flags,
                    ino |-> ino])]

\* FuseAdapter::open, with fh the handle the handle table allocates.
fuse_open(f, ino, flags, fh) ==
    IF inodes_path(f, ino) = NoPath
    THEN FuseReply("error", "ENOENT", <<>>, f)
    ELSE IF ~is_file(f, inodes_path(f, ino))
    THEN FuseReply("error", "ENOTSUP", <<>>, f)
    ELSE FuseReply("opened", fh, <<>>,
                   handles_open(f, fh, flags, "File", ino))

\* FuseAdapter::release and FuseAdapter::releasedir.
release(f, fh) == FuseReply("ok", 0, <<>>, handles_close(f, fh))

\* FuseAdapter::read from the seek on: the buffer is a Vec of capacity
\* count and length 0, so slicing it up to count panics unless count is 0.
read_object(f, ino, info, offset, count, fault) ==
    IF fault = "seek" THEN FuseReply("error", "EIO", <<>>, f)
    ELSE LET g == object_seek(f, ino, offset) IN
         IF count > 0 THEN FuseReply("panic", 0, <<>>, g)
         ELSE IF "O_NOATIME" \notin info.flags
                  /\ fault \in {"entry", "set_metadata"}
         THEN FuseReply("error", "EIO", <<>>, g)
         ELSE FuseReply("data", 0, <<>>, g)

\* FuseAdapter::read that leaves the handle open when the inode has no
\* path.
fuse_read_keeping_handle(f, ino, fh, offset, count, fault) ==
    LET info == handles_info(f, fh) IN
    IF info.handle_type = "Directory"
    THEN FuseReply("error", "EISDIR", <<>>, f)
    ELSE IF info = NoHandle THEN FuseReply("error", "EBADF", <<>>, f)
    ELSE IF inodes_path(f, ino) = NoPath
    THEN FuseReply("error", "EBADF", <<>>, f)
    ELSE IF ~exists(f, inodes_path(f, ino)) /\ ino \notin DOMAIN f.objects
    THEN FuseReply("panic", 0, <<>>, f)
    ELSE IF ino \in DOMAIN f.objects /\ fault = "object_commit"
    THEN FuseReply("error", "EIO", <<>>, f)
    ELSE read_object(IF ino \in DOMAIN f.objects
                     THEN object_commit(f, ino) ELSE object_entry(f, ino),
                     ino, info, offset, count, fault)

\* FuseAdapter::read.
fuse_read(f, ino, fh, offset, count, fault) ==
    LET info == handles_info(f, fh) IN
    IF info.handle_type = "Directory"
    THEN FuseReply("error", "EISDIR", <<>>, f)
    ELSE IF info = NoHandle THEN FuseReply("error", "EBADF", <<>>, f)
    ELSE IF inodes_path(f, ino) = NoPath
    THEN FuseReply("error", "EBADF", <<>>, handles_close(f, fh))
    ELSE IF ~exists(f, inodes_path(f, ino)) /\ ino \notin DOMAIN f.objects
    THEN FuseReply("panic", 0, <<>>, f)
    ELSE IF ino \in DOMAIN f.objects /\ fault = "object_commit"
    THEN FuseReply("error", "EIO", <<>>, f)
    ELSE read_object(IF ino \in DOMAIN f.objects
                     THEN object_commit(f, ino) ELSE object_entry(f, ino),
                     ino, info, offset, count, fault)

\* FuseAdapter::write from the write to the Object on: an error after the
\* write removes the Object from the map, which drops it with what it has
\* staged.
write_object(f, ino, info, at, data, fault) ==
    LET written == object_write(f, ino, at, data)
        dropped == [written EXCEPT !.objects = Remove(@, ino)]
        synced == object_commit(written, ino)
    IN IF fault = "write"
       THEN FuseReply("error", "EIO", <<>>, written)
       ELSE IF fault = "set_metadata"
       THEN FuseReply("error", "EIO", <<>>, dropped)
       ELSE IF info.flags \cap {"O_SYNC", "O_DSYNC"} = {}
       THEN FuseReply("written", Len(data), <<>>, written)
       ELSE IF fault = "object_commit"
       THEN FuseReply("error", "EIO", <<>>, dropped)
       ELSE IF fault = "repo_commit"
       THEN FuseReply("error", "EIO", <<>>,
                      [synced EXCEPT !.objects = Remove(@, ino)])
       ELSE FuseReply("written", Len(data), <<>>, synced)

\* FuseAdapter::write.
fuse_write(f, ino, fh, offset, data, fault) ==
    LET info == handles_info(f, fh) IN
    IF info.handle_type = "Directory"
    THEN FuseReply("error", "EISDIR", <<>>, f)
    ELSE IF info = NoHandle THEN FuseReply("error", "EBADF", <<>>, f)
    ELSE IF inodes_path(f, ino) = NoPath
    THEN FuseReply("error", "EBADF", <<>>, handles_close(f, fh))
    ELSE IF ~exists(f, inodes_path(f, ino)) /\ ino \notin DOMAIN f.objects
    THEN FuseReply("panic", 0, <<>>, f)
    ELSE LET g == object_entry(f, ino)
             length == Len(g.objects[ino].staged)
             to == IF "O_APPEND" \in info.flags THEN length ELSE offset
             h == object_seek(g, ino, to)
         IN IF fault = "seek" THEN FuseReply("error", "EIO", <<>>, g)
            ELSE IF fault = "entry" THEN FuseReply("error", "EIO", <<>>, h)
            ELSE write_object(h, ino, info, seek_position(g, ino, to),
                              data, fault)

\* FuseAdapter::unlink.
unlink(f, parent, name) ==
    LET entry_path == child_path(f, parent, name) IN
    IF entry_path = NoPath THEN FuseReply("error", "ENOENT", <<>>, f)
    ELSE IF is_directory(f, entry_path)
    THEN FuseReply("error", "EISDIR", <<>>, f)
    ELSE IF ~exists(f, entry_path)
    THEN FuseReply("error", "ENOENT", <<>>, f)
    ELSE IF inodes_inode(f, entry_path) = NoInode
    THEN FuseReply("panic", 0, <<>>,
                   [f EXCEPT !.repo = Remove(@, entry_path)])
    ELSE FuseReply("ok", 0, <<>>,
                   [f EXCEPT !.repo = Remove(@, entry_path),
                             !.inodes =
                                 Remove(@, inodes_inode(f, entry_path))])

\* FuseAdapter::lookup with FuseAdapter::entry_attr: the reply holds the
\* inode and the entry.
lookup(f, parent, name) ==
    LET entry_path == child_path(f, parent, name)
        entry_inode == inodes_inode(f, entry_path)
    IN IF entry_path = NoPath THEN FuseReply("error", "ENOENT", <<>>, f)
       ELSE IF entry_inode = NoInode THEN FuseReply("panic", 0, <<>>, f)
       ELSE IF ~exists(f, entry_path)
       THEN FuseReply("error", "ENOENT", <<>>, f)
       ELSE FuseReply("entry", entry_inode, f.repo[entry_path],
                      IF ~is_file(f, entry_path) THEN f
                      ELSE IF entry_inode \in DOMAIN f.objects
                      THEN object_commit(f, entry_inode)
                      ELSE object_entry(f, entry_inode))

\* RelativePath::starts_with.
starts_with(path, base) ==
    Len(base) <= Len(path) /\ SubSeq(path, 1, Len(base)) = base

\* FuseAdapter::rename: the entry of the destination is removed and the
\* entry of the source copied to it.
rename(f, parent, name, newparent, newname) ==
    LET source_path == child_path(f, parent, name)
        dest_path == child_path(f, newparent, newname)
    IN IF source_path = NoPath \/ dest_path = NoPath
       THEN FuseReply("error", "ENOENT", <<>>, f)
       ELSE IF ~exists(f, source_path)
       THEN FuseReply("error", "ENOENT", <<>>, f)
       ELSE IF starts_with(dest_path, source_path)
       THEN FuseReply("error", "EINVAL", <<>>, f)
       ELSE IF ~is_directory(f, SubSeq(dest_path, 1, Len(dest_path) - 1))
       THEN FuseReply("error", "ENOTDIR", <<>>, f)
       ELSE IF is_directory(f, dest_path) /\ list(f, dest_path) # {}
       THEN FuseReply("error", "ENOTEMPTY", <<>>, f)
       ELSE FuseReply("ok", 0, <<>>,
                      [f EXCEPT !.repo =
                          Put(@, dest_path, f.repo[source_path])])

\* struct DirectoryEntry.
DirectoryEntry(f, child_path_) ==
    [file_name |-> child_path_[Len(child_path_)],
     file_type |-> f.repo[child_path_].file_type,
     inode |-> inodes_inode(f, child_path_)]

\* FuseAdapter::opendir, with fh the handle the handle table allocates and
\* listed the paths FileRepo::list returns, in the order it returns them.
opendir(f, ino, flags, fh, listed) ==
    LET entry_path == inodes_path(f, ino) IN
    IF entry_path = NoPath THEN FuseReply("error", "ENOENT", <<>>, f)
    ELSE IF ~is_directory(f, entry_path)
    THEN FuseReply("error", "ENOTDIR", <<>>, f)
    ELSE IF \E i \in 1..Len(listed) : inodes_inode(f, listed[i]) = NoInode
    THEN FuseReply("panic", 0, <<>>, f)
    ELSE LET children == [i \in 1..Len(listed) |->
                             DirectoryEntry(f, listed[i])]
             opened == handles_open(f, fh, flags, "Directory", ino)
         IN FuseReply("opened", fh, <<>>,
                      [opened EXCEPT !.directories = Put(@, fh, children)])

\* FuseAdapter::readdir into a reply buffer that holds fits entries: an
\* entry is attached the offset i + 1 of its index i in children[offset..].
readdir(f, fh, offset, fits) ==
    LET info == handles_info(f, fh) IN
    IF info.handle_type = "File"
    THEN FuseReply("error", "ENOTDIR", <<>>, f)
    ELSE IF info = NoHandle THEN FuseReply("error", "EBADF", <<>>, f)
    ELSE LET children == f.directories[fh] IN
         IF offset > Len(children) THEN FuseReply("panic", 0, <<>>, f)
         ELSE FuseReply("ok", 0,
                        [i \in 1..Min(fits, Len(children) - offset) |->
                            [file_name |-> children[offset + i].file_name,
                             inode |-> children[offset + i].inode,
                             offset |-> i]],
                        f)

\* The adapter FuseAdapter::new makes on a repository with the entries of
\* repo: every entry has an inode, and no handle, Object or directory is
\* open.
NewAdapter(entries) ==
    [repo |-> entries,
     inodes |-> [ino \in 1..Cardinality(DOMAIN entries) |->
                    IF ino = 1 THEN EMPTY_PARENT
                    ELSE IF <<"a">> \in DOMAIN entries /\ ino = 2
                    THEN <<"a">> ELSE <<"b">>],
     handles |-> <<>>,
     objects |-> <<>>,
     directories |-> <<>>]

\* The entries of a repository with the files of files, a content for
\* every name, in its root.
Entries(files) ==
    [p \in {EMPTY_PARENT} \cup {<<name>> : name \in DOMAIN files} |->
        IF p = EMPTY_PARENT THEN Directory ELSE File(files[p[1]])]

\* The content of the file of inode ino with the writes staged in its
\* Object, empty for an inode without a file.
FileOf(f, ino) ==
    IF ino \in DOMAIN f.objects THEN f.objects[ino].staged
    ELSE IF is_file(f, inodes_path(f, ino))
    THEN f.repo[inodes_path(f, ino)].content
    ELSE <<>>

\* No enumeration of a directory is under way.
NoSeries == [fh |-> 0, cursor |-> 0, seen |-> <<>>, done |-> FALSE,
             calls |-> 0]

\* No handler was called yet.
NoFuseCall ==
    [op |-> "none", ino |-> 0, fh |-> 0, offset |-> 0, count |-> 0,
     name |-> "", newparent |-> 0,
     newname |-> "",
     reply |-> "ok", errno |-> "", value |-> 0, replied |-> <<>>,
     info |-> NoHandle, linked |-> FALSE, staged |-> <<>>,
     untouched |-> TRUE, series |-> NoSeries]

\* The adapter when no specification follows it.
FuseIdle ==
    /\ fs = NewAdapter(Entries(<<>>))
    /\ fslast = NoFuseCall

(***************************************************************************)
(* Initial states.                                                         *)
(***************************************************************************)
\* The data of a chunk of a stored object: not empty, no longer than the
\* largest chunk.
ChunkData == SeqsOf(Byte, 1, MaxChunkSize)

\* The handles an Object can start from: ObjectHandle::default() of a newly
\* inserted key, or a handle deserialized from the header, whose size is
\* the sum of the sizes of its chunks.
InitHandles ==
    {h \in {[size |-> SumSizes(cs), chunks |-> cs] :
               cs \in {[i \in 1..Len(ds) |-> Chunk(ds[i])] :
                          ds \in SeqsOf(ChunkData, 0, MaxSize)}} :
        h.size <= MaxSize}

\* No Object is open.
ObjectIdle ==
    /\ handle = DefaultHandle
    /\ chunker = NewChunker
    /\ new_chunks = <<>>
    /\ start_location = DefaultLocation
    /\ position = 0
    /\ dirty = FALSE
    /\ last = NoOp
    /\ pre = [handle |-> DefaultHandle, position |-> 0, dirty |-> FALSE,
              self |-> Self]
    /\ swf = NoSwf
    /\ rt = NoRt
    /\ tt = NoTt
    /\ reads = <<>>
    /\ refcount = NoCounts

\* Object::new on a key of the repository.
NewObject ==
    /\ handle \in InitHandles
    /\ chunker = NewChunker
    /\ new_chunks = <<>>
    /\ start_location = DefaultLocation
    /\ position = 0
    /\ dirty = FALSE
    /\ last = NoOp
    /\ pre = [handle |-> handle, position |-> 0, dirty |-> FALSE,
              self |-> Self]
    /\ swf = NoSwf
    /\ rt = NoRt
    /\ tt = NoTt
    /\ reads = <<>>
    /\ HeaderIdle
    /\ SavepointIdle
    /\ S3Idle
    /\ FuseIdle

\* Object::new, the refcounts of the chunk store not followed.
Init == NewObject /\ refcount = NoCounts

\* Object::new on the one key of a repository: the refcount of every
\* chunk is the number of references from the chunk list of the key.
RefInit == NewObject /\ refcount = References(handle.chunks)

(***************************************************************************)
(* Actions: one per operation of Object.                                   *)
(***************************************************************************)
\* Bytes written and not yet part of the handle.
PendingBytes(self) == SumSizes(self.new_chunks) + Len(self.chunker.buffer)

\* The exploration bound on the size of the object.
Bounded(self) ==
    /\ self.handle.size <= MaxSize
    /\ SumSizes(self.handle.chunks) <= MaxSize
    /\ PendingBytes(self) <= MaxSize
    /\ self.position <= MaxSize + MaxSize

\* A panic unwinds the caller and drops the Object, and an error of the
\* chunk store is returned to a caller who has to roll back: no call on the
\* Object follows either, and none follows its drop.
Usable == last.res \notin {"panic", "Io"} /\ last.op # "drop"

\* The call op(whence, n, buf) ended with result r, after the chunk store
\* returned outcomes to its reads: the Object, the handle and the history.
StepObject(op, whence, n, buf, r, nowDirty, outcomes) ==
    /\ Usable
    /\ \E ended \in {r} :
          /\ Bounded(ended.self)
          /\ handle' = ended.self.handle
          /\ chunker' = ended.self.chunker
          /\ new_chunks' = ended.self.new_chunks
          /\ start_location' = ended.self.start_location
          /\ position' = ended.self.position
          /\ dirty' = nowDirty
          /\ last' = [op |-> op, whence |-> whence, n |-> n, buf |-> buf,
                      res |-> ended.res, ret |-> ended.ret,
                      data |-> ended.data]
          /\ pre' = [handle |-> handle, position |-> position,
                     dirty |-> dirty, self |-> Self]
          /\ swf' = NextSwf(op, whence, n, buf, ended)
          /\ rt' = NextRt(op, whence, n, buf, ended)
          /\ tt' = NextTt(op, whence, n, buf, ended)
          /\ reads' = outcomes
    /\ UNCHANGED <<hdrVars, spVars, s3Vars, fuseVars>>

\* The same, where the refcounts are not followed.
StepReads(op, whence, n, buf, r, nowDirty, outcomes) ==
    /\ StepObject(op, whence, n, buf, r, nowDirty, outcomes)
    /\ UNCHANGED refcount

\* The call op(whence, n, buf) ended with result r.
Step(op, whence, n, buf, r, nowDirty) ==
    StepReads(op, whence, n, buf, r, nowDirty, <<>>)

\* The dirty flag after a call that starts with flush.
AfterFlush(r) == IF r.res = "panic" THEN dirty ELSE FALSE

Write ==
    \E buf \in SeqsOf(Byte, 0, MaxWrite) :
        LET r == write(Self, buf) IN
        Step("write", "", Len(buf), buf, r, IF r.res = "Ok" THEN TRUE ELSE dirty)

Flush ==
    LET r == flush(Self) IN Step("flush", "", 0, <<>>, r, AfterFlush(r))

Read ==
    \E len \in 0..MaxRead :
        LET r == read(Self, len) IN Step("read", "", len, <<>>, r, dirty)

\* The offsets tried: up to one past the object, in both directions.
SeekOffsets == (0 - handle.size - 1)..(handle.size + 1)

Seek ==
    \E whence \in {"Start", "End", "Current"} :
        \E offset \in SeekOffsets :
            /\ whence = "Start" => offset >= 0
            /\ LET r == seek(Self, whence, offset)
               IN Step("seek", whence, offset, <<>>, r, AfterFlush(r))

Truncate ==
    \E length \in 0..(handle.size + 1) :
        LET r == truncate(Self, length)
        IN Step("truncate", "", length, <<>>, r, AfterFlush(r))

Verify ==
    LET r == verify(Self) IN Step("verify", "", 0, <<>>, r, dirty)

Next == Write \/ Flush \/ Read \/ Seek \/ Truncate \/ Verify

Spec == Init /\ [][Next]_vars

(***************************************************************************)
(* Header::write, statement by statement, on an archive whose writer can   *)
(* be killed between and within its writes.                                *)
(***************************************************************************)
\* The calls of Header::write explored in one behaviour.
MaxWrites == 2

HeaderInit ==
    ObjectIdle /\ HeaderIdle /\ SavepointIdle /\ S3Idle /\ FuseIdle

\* let offset = archive.seek(SeekFrom::End(0))?
StartWrite ==
    /\ hpc = "idle"
    /\ hw.calls < MaxWrites
    /\ \E h \in Headers :
          hw' = [header |-> h, offset |-> Len(archive), start |-> archive,
                 header_start |-> 0, before |-> header_read(archive),
                 at |-> "seek", torn |-> FALSE, calls |-> hw.calls + 1]
    /\ hpc' = "seek"
    /\ UNCHANGED <<archive, hret>>
    /\ UNCHANGED <<objVars, spVars, s3Vars, fuseVars>>

\* pad_to_block_size(&mut archive)?
Pad ==
    /\ hpc = "seek"
    /\ archive' = pad_to_block_size(archive)
    /\ hpc' = "pad"
    /\ hw' = [hw EXCEPT !.at = "pad"]
    /\ UNCHANGED hret
    /\ UNCHANGED <<objVars, spVars, s3Vars, fuseVars>>

\* archive.write_all(&serialized_header.len().to_be_bytes())?, at the
\* position the padding ended at.
WriteLength ==
    /\ hpc = "pad"
    /\ archive' = archive \o to_be_bytes(Len(encode_to_vec(hw.header)))
    /\ hpc' = "len"
    /\ hw' = [hw EXCEPT !.at = "len", !.header_start = Len(archive)]
    /\ UNCHANGED hret
    /\ UNCHANGED <<objVars, spVars, s3Vars, fuseVars>>

\* archive.write_all(&serialized_header)?
WriteHeader ==
    /\ hpc = "len"
    /\ archive' = archive \o encode_to_vec(hw.header)
    /\ hpc' = "header"
    /\ hw' = [hw EXCEPT !.at = "header"]
    /\ UNCHANGED hret
    /\ UNCHANGED <<objVars, spVars, s3Vars, fuseVars>>

\* The first k bytes of file overwritten with the first k bytes of bytes.
Overwrite(file, bytes, k) ==
    SubSeq(bytes, 1, k) \o SubSeq(file, k + 1, Len(file))

\* archive.seek(SeekFrom::Start(0))?; archive.write_all(&offset.to_be_bytes())?
WritePointer ==
    /\ hpc = "header"
    /\ archive' = Overwrite(archive, to_be_bytes(hw.offset), U64Size)
    /\ hpc' = "pointer"
    /\ hw' = [hw EXCEPT !.at = "pointer"]
    /\ UNCHANGED hret
    /\ UNCHANGED <<objVars, spVars, s3Vars, fuseVars>>

\* The HeaderAddress computed from archive.metadata()?.len(), returned Ok.
Return ==
    /\ hpc = "pointer"
    /\ hret' = [called |-> TRUE, header |-> hw.header,
                header_start |-> hw.header_start, start |-> hw.start,
                address |-> HeaderAddress(hw.offset, Len(archive) - hw.offset,
                                Len(archive))]
    /\ hpc' = "idle"
    /\ hw' = [hw EXCEPT !.at = "idle"]
    /\ UNCHANGED archive
    /\ UNCHANGED <<objVars, spVars, s3Vars, fuseVars>>

\* The bytes the statement after hpc writes at the end of the archive.
NextAppend ==
    CASE hpc = "seek" -> SubSeq(pad_to_block_size(archive),
                             Len(archive) + 1, Len(pad_to_block_size(archive)))
      [] hpc = "pad" -> to_be_bytes(Len(encode_to_vec(hw.header)))
      [] hpc = "len" -> encode_to_vec(hw.header)
      [] OTHER -> <<>>

\* The process is killed inside Header::write: after the statement hpc, with
\* k bytes of the write of the next statement already in the file.
Crash ==
    /\ hpc \in {"seek", "pad", "len", "header", "pointer"}
    /\ \/ \E k \in 0..Len(NextAppend) :
             /\ k = 0 \/ k < Len(NextAppend)
             /\ archive' = archive \o SubSeq(NextAppend, 1, k)
             /\ hw' = [hw EXCEPT !.torn = FALSE]
       \/ \E k \in 1..(U64Size - 1) :
             /\ hpc = "header"
             /\ archive' = Overwrite(archive, to_be_bytes(hw.offset), k)
             /\ hw' = [hw EXCEPT !.torn = TRUE]
    /\ hpc' = "crashed"
    /\ UNCHANGED hret
    /\ UNCHANGED <<objVars, spVars, s3Vars, fuseVars>>

\* The archive is opened again after the crash.
Reopen ==
    /\ hpc = "crashed"
    /\ hpc' = "idle"
    /\ hw' = [hw EXCEPT !.at = "idle", !.torn = FALSE]
    /\ hret' = NoReturn
    /\ UNCHANGED archive
    /\ UNCHANGED <<objVars, spVars, s3Vars, fuseVars>>

HeaderNext ==
    \/ StartWrite
    \/ Pad
    \/ WriteLength
    \/ WriteHeader
    \/ WritePointer
    \/ Return
    \/ Crash
    \/ Reopen

HeaderSpec == HeaderInit /\ [][HeaderNext]_vars

(***************************************************************************)
(* The calls on a repository and on the savepoints it hands out.           *)
(***************************************************************************)
\* The savepoints taken in one behaviour.
MaxSavepoints == 2

\* The commits and rollbacks of one behaviour.
MaxTransactions == 2

SavepointInit ==
    ObjectIdle /\ HeaderIdle /\ SavepointIdle /\ S3Idle /\ FuseIdle

\* What is_valid returns for each savepoint handed out.
Validity == [i \in 1..Len(savepoints) |-> is_valid(savepoints[i].sp)]

\* The call op(arg) returned ret; prev is the savepoint the call before it
\* restored, if it restored one.
Called(op, arg, ret) ==
    splast' = [op |-> op, arg |-> arg, ret |-> ret, header |-> repo.header,
               committed |-> repo.committed, valid |-> Validity,
               prev |-> IF splast.op = "restore" /\ splast.ret
                        THEN splast.arg ELSE 0]

\* A write to the repository: the current header becomes another one.
RepoWrite ==
    /\ repo.exists
    /\ \E h \in Headers \ {repo.header} : repo' = [repo EXCEPT !.header = h]
    /\ Called("write", 0, TRUE)
    /\ UNCHANGED <<strong, savepoints, objVars, hdrVars, s3Vars, fuseVars>>

\* KeyRepo::savepoint: a Savepoint of a clone of the current header and a
\* Weak to the current transaction id; taken, ended and origin (the
\* savepoint a clone was made of, 0 for a savepoint the repository made) are
\* history.
TakeSavepoint ==
    /\ repo.exists
    /\ Len(savepoints) < MaxSavepoints
    /\ savepoints' = Append(savepoints,
                         [sp |-> Savepoint(repo.header, repo.transaction_id),
                          taken |-> repo.header, ended |-> FALSE,
                          origin |-> 0])
    /\ Called("savepoint", Len(savepoints) + 1, TRUE)
    /\ UNCHANGED <<repo, strong, objVars, hdrVars, s3Vars, fuseVars>>

\* Savepoint::clone on a savepoint handed out, valid or not, whether or not
\* the repository still exists.
CloneSavepoint ==
    /\ Len(savepoints) < MaxSavepoints
    /\ \E i \in 1..Len(savepoints) :
          /\ savepoints' = Append(savepoints,
                               [savepoints[i] EXCEPT !.sp = clone(@),
                                                     !.origin = i])
          /\ Called("clone", i, TRUE)
    /\ UNCHANGED <<repo, strong, objVars, hdrVars, s3Vars, fuseVars>>

\* KeyRepo::restore: false for a savepoint that is not valid, otherwise the
\* current header is replaced by the header of the savepoint.
Restore ==
    /\ repo.exists
    /\ \E i \in 1..Len(savepoints) :
          IF is_valid(savepoints[i].sp)
          THEN /\ repo' = [repo EXCEPT !.header = savepoints[i].sp.header]
               /\ Called("restore", i, TRUE)
          ELSE /\ repo' = repo
               /\ Called("restore", i, FALSE)
    /\ UNCHANGED <<strong, savepoints, objVars, hdrVars, s3Vars, fuseVars>>

\* The repository drops the Arc of its transaction id and allocates the Arc
\* of the next one.
NewTransaction(header, committed) ==
    /\ repo.exists
    /\ repo.transactions < MaxTransactions
    /\ repo' = [repo EXCEPT !.header = header, !.committed = committed,
                            !.transaction_id = Len(strong) + 1,
                            !.transactions = @ + 1]
    /\ strong' = Append([strong EXCEPT ![repo.transaction_id] = @ - 1], 1)
    /\ savepoints' = [i \in 1..Len(savepoints) |->
                         [savepoints[i] EXCEPT !.ended = TRUE]]
    /\ UNCHANGED <<objVars, hdrVars, s3Vars, fuseVars>>

\* KeyRepo::commit: the current header becomes the committed one.
Commit ==
    /\ NewTransaction(repo.header, repo.header)
    /\ Called("commit", 0, TRUE)

\* KeyRepo::rollback: the committed header becomes the current one.
Rollback ==
    /\ NewTransaction(repo.committed, repo.committed)
    /\ Called("rollback", 0, TRUE)

\* The repository is dropped, and the Arc of its transaction id with it.
DropRepo ==
    /\ repo.exists
    /\ repo' = [repo EXCEPT !.exists = FALSE]
    /\ strong' = [strong EXCEPT ![repo.transaction_id] = @ - 1]
    /\ Called("drop", 0, TRUE)
    /\ UNCHANGED <<savepoints, objVars, hdrVars, s3Vars, fuseVars>>

SavepointNext ==
    \/ RepoWrite
    \/ TakeSavepoint
    \/ CloneSavepoint
    \/ Restore
    \/ Commit
    \/ Rollback
    \/ DropRepo

SavepointSpec == SavepointInit /\ [][SavepointNext]_vars

(***************************************************************************)
(* Object::verify over a chunk store that can be damaged or fail.          *)
(***************************************************************************)
\* verify on a store that returns outcomes[i] for the chunk i.
VerifyReads ==
    \E outcomes \in [1..Len(handle.chunks) ->
                        UNION {ReadOutcomes(handle.chunks[i].hash) :
                                  i \in 1..Len(handle.chunks)}] :
        /\ \A i \in 1..Len(handle.chunks) :
              outcomes[i] \in ReadOutcomes(handle.chunks[i].hash)
        /\ LET r == verify_from(Self, outcomes, 1)
           IN StepReads("verify", "", 0, <<>>, r, dirty, outcomes)

VerifyNext == VerifyReads

VerifySpec == Init /\ [][VerifyNext]_vars

(***************************************************************************)
(* The Object over a chunk store whose calls can fail.                     *)
(***************************************************************************)
\* The calls to the chunk store that can be made to fail in one write or
\* flush: read_chunk (0) or one of the write_chunk calls; the chunks
\* written before the one that fails stay pending, which bounds it.
FaultPoints == 0..(MaxSize + 1)

\* write returned the error of the chunk store.
FailWrite ==
    \E buf \in SeqsOf(Byte, 0, MaxWrite) :
        \E at \in FaultPoints :
            LET r == write_failing(Self, buf, at)
            IN /\ r.res = "Io"
               /\ Step("write", "", Len(buf), buf, r, dirty)

\* flush returned the error of the chunk store.
FailFlush ==
    \E at \in FaultPoints :
        LET r == flush_failing(Self, at)
        IN /\ r.res = "Io"
           /\ Step("flush", "", 0, <<>>, r, dirty)

\* The Object goes out of scope.
Drop ==
    LET r == drop(Self) IN Step("drop", "", 0, <<>>, r, AfterFlush(r))

\* The Object goes out of scope and the flush of its drop gets an error of
\* the chunk store.
FailDrop ==
    \E at \in FaultPoints :
        /\ flush_failing(Self, at).res = "Io"
        /\ Step("drop", "Io", at, <<>>, drop_failing(Self, at), dirty)

\* The calls that change the Object or its handle, and the failing ones.
FaultNext ==
    \/ Write
    \/ Flush
    \/ Seek
    \/ Truncate
    \/ FailWrite
    \/ FailFlush
    \/ Drop
    \/ FailDrop

FaultSpec == Init /\ [][FaultNext]_vars

(***************************************************************************)
(* The Object over a chunk store whose refcounts are followed.             *)
(***************************************************************************)
\* The largest refcount explored.
MaxRefs == 3

\* The call op(whence, n, buf) ended with result r after it passed the
\* chunks written to write_chunk.
StepCounted(op, whence, n, buf, r, nowDirty, written) ==
    /\ StepObject(op, whence, n, buf, r, nowDirty, <<>>)
    /\ \A h \in ChunkHashes : ref_written(refcount, written)[h] <= MaxRefs
    /\ refcount' = ref_written(refcount, written)

CountedWrite ==
    \E buf \in SeqsOf(Byte, 0, MaxWrite) :
        LET r == write(Self, buf)
        IN StepCounted("write", "", Len(buf), buf, r,
               IF r.res = "Ok" THEN TRUE ELSE dirty, write_writes(Self, buf))

CountedFlush ==
    LET r == flush(Self)
    IN StepCounted("flush", "", 0, <<>>, r, AfterFlush(r), flush_writes(Self))

CountedSeek ==
    \E offset \in 0..handle.size :
        LET r == seek(Self, "Start", offset)
        IN StepCounted("seek", "Start", offset, <<>>, r, AfterFlush(r),
               flush_writes(Self))

CountedTruncate ==
    \E length \in 0..(handle.size + 1) :
        LET r == truncate(Self, length)
        IN StepCounted("truncate", "", length, <<>>, r, AfterFlush(r),
               truncate_writes(Self, length))

RefNext == CountedWrite \/ CountedFlush \/ CountedSeek \/ CountedTruncate

RefSpec == RefInit /\ [][RefNext]_vars

(***************************************************************************)
(* S3Store over a bucket.                                                  *)
(***************************************************************************)
\* A bucket that holds any version object and any blocks.
S3Init ==
    /\ ObjectIdle
    /\ HeaderIdle
    /\ SavepointIdle
    /\ FuseIdle
    /\ \E v \in StoredVersions :
          \E held \in [BlockIds -> BlockData \cup {<<>>}] :
              bucket = [key \in Keys |->
                           IF key = VersionKey THEN v
                           ELSE IF held[key[2]] = <<>> THEN NoObject
                           ELSE Stored(held[key[2]])]
    /\ s3last = NoS3Call

\* The call op ended with res and left the bucket b; store tells whether
\* the caller holds an S3Store, truncated whether the call is an open with
\* TRUNCATE that returned Ok, after_truncate whether it follows one.
S3Called(op, options, fault, res, b, store, truncated) ==
    /\ bucket' = b
    /\ s3last' = [op |-> op, options |-> options, fault |-> fault,
                   res |-> res, before |-> bucket, store |-> store,
                   truncated |-> truncated,
                   after_truncate |-> s3last.truncated]
    /\ UNCHANGED <<objVars, hdrVars, spVars, fuseVars>>

\* S3Store::open with every request answered.
Open ==
    \E options \in SUBSET OpenOption :
        LET r == open(bucket, options, NoFault)
        IN S3Called("open", options, NoFault, r.res, r.bucket,
               r.res = "Ok", r.res = "Ok" /\ "TRUNCATE" \in options)

\* S3Store::open with a request that fails.
FailOpen ==
    \E options \in SUBSET OpenOption :
        \E fault \in Faults :
            LET r == open(bucket, options, fault)
            IN /\ r.res = "Store"
               /\ S3Called("open", options, fault, r.res, r.bucket,
                      FALSE, FALSE)

WriteBlock ==
    /\ s3last.store
    /\ \E id \in BlockIds :
          \E data \in BlockData :
              S3Called("write_block", {}, NoFault, "Ok",
                  write_block(bucket, id, data), TRUE, FALSE)

RemoveBlock ==
    /\ s3last.store
    /\ \E id \in BlockIds :
          S3Called("remove_block", {}, NoFault, "Ok",
              remove_block(bucket, id), TRUE, FALSE)

S3Next == Open \/ FailOpen \/ WriteBlock \/ RemoveBlock

S3Spec == S3Init /\ [][S3Next]_vars

(***************************************************************************)
(* The calls of the kernel on the FUSE adapter.                            *)
(***************************************************************************)
\* The contents of the file a when the adapter is made.
InitContents == SeqsOf({0}, 0, MaxFile)

\* The buffers handed to write.
WriteData == {<<>>, <<1>>}

FuseInit ==
    /\ ObjectIdle
    /\ HeaderIdle
    /\ SavepointIdle
    /\ S3Idle
    /\ \E a \in InitContents :
          fs = NewAdapter(Entries([name \in {"a"} |-> a]))
    /\ fslast = NoFuseCall

\* A repository with every name an empty file.
DirInit ==
    /\ ObjectIdle
    /\ HeaderIdle
    /\ SavepointIdle
    /\ S3Idle
    /\ fs = NewAdapter(Entries([name \in Names |-> <<>>]))
    /\ fslast = NoFuseCall

\* The arguments of a call that the properties refer to; a handler takes
\* some of them.
FuseArgs(ino, fh, offset, count, name, newparent, newname) ==
    [ino |-> ino, fh |-> fh, offset |-> offset, count |-> count,
     name |-> name, newparent |-> newparent, newname |-> newname]

\* The handler op was called with args and ended with r (a handler that
\* panics ends the session: no call follows); series is the enumeration
\* under way after it. History: info, linked and staged are the handle,
\* whether the inode had a path and the content of its file before the
\* call, untouched whether the call left entries and Objects as they were.
FuseCalled(op, args, r, series) ==
    /\ fslast.reply # "panic"
    /\ \E ended \in {r} :
          /\ \A path \in DOMAIN ended.fs.repo :
                Len(ended.fs.repo[path].content) <= MaxFile
          /\ \A ino \in DOMAIN ended.fs.objects :
                Len(ended.fs.objects[ino].staged) <= MaxFile
          /\ fs' = ended.fs
          /\ fslast' =
                [op |-> op, ino |-> args.ino, fh |-> args.fh,
                 offset |-> args.offset, count |-> args.count,
                 name |-> args.name, newparent |-> args.newparent,
                 newname |-> args.newname,
                 reply |-> ended.reply,
                 errno |-> IF ended.reply = "error" THEN ended.value
                           ELSE "",
                 value |-> IF ended.reply = "error" THEN 0
                           ELSE ended.value,
                 replied |-> ended.data,
                 info |-> handles_info(fs, args.fh),
                 linked |-> inodes_path(fs, args.ino) # NoPath,
                 staged |-> FileOf(fs, args.ino),
                 untouched |-> ended.fs.repo = fs.repo
                                   /\ ended.fs.objects = fs.objects,
                 series |-> series]
    /\ UNCHANGED <<objVars, hdrVars, spVars, s3Vars>>

\* The handles the handle table can allocate.
FreeHandles == (1..MaxHandles) \ DOMAIN fs.handles

\* The handle fh is open and the inode it was opened on has a path.
Live(fh) ==
    fh \in DOMAIN fs.handles
        /\ inodes_path(fs, fs.handles[fh].ino) # NoPath

\* The inode the kernel passes with the handle fh: the inode the handle was
\* opened on (the root for a handle that is not open, which no handler
\* looks at).
InodeOf(fh) == IF fh \in DOMAIN fs.handles THEN fs.handles[fh].ino ELSE 1

\* The offsets and sizes passed with the handle fh (0 where the handler
\* replies before it looks at them).
OffsetsOf(fh) == IF Live(fh) THEN 0..MaxFile ELSE {0}

\* The requests that can fail in a read of count bytes and in a write
\* through the handle fh (none where the handler replies before it makes
\* one).
ReadFaultsOf(fh, count) ==
    IF ~Live(fh) THEN {"none"}
    ELSE IF count > 0 THEN {"none", "object_commit", "seek"}
    ELSE {"none", "object_commit", "seek", "entry", "set_metadata"}

WriteFaultsOf(fh) ==
    IF Live(fh) THEN FuseFaults(fs.handles[fh].flags) ELSE {"none"}

\* The offsets passed to write with the handle fh (0 for a handle opened
\* with O_APPEND, where the handler seeks to the end whatever the offset).
WriteOffsetsOf(fh) ==
    IF Live(fh) /\ "O_APPEND" \notin fs.handles[fh].flags
    THEN 0..MaxFile ELSE {0}

OpenFile ==
    \E ino \in Inodes : \E flags \in OpenFlags : \E fh \in FreeHandles :
        FuseCalled("open", FuseArgs(ino, fh, 0, 0, "", 0, ""),
                   fuse_open(fs, ino, flags, fh), fslast.series)

Release ==
    \E fh \in DOMAIN fs.handles :
        FuseCalled("release", FuseArgs(InodeOf(fh), fh, 0, 0, "", 0, ""),
                   release(fs, fh), fslast.series)

ReadFile ==
    \E fh \in 1..MaxHandles :
        \E offset \in OffsetsOf(fh) : \E count \in OffsetsOf(fh) :
            \E fault \in ReadFaultsOf(fh, count) :
                FuseCalled("read",
                           FuseArgs(InodeOf(fh), fh, offset, count, "", 0,
                                    ""),
                           fuse_read(fs, InodeOf(fh), fh, offset, count,
                                     fault),
                           fslast.series)

WriteFile ==
    \E fh \in 1..MaxHandles :
        \E offset \in WriteOffsetsOf(fh) : \E data \in WriteData :
            \E fault \in WriteFaultsOf(fh) :
                FuseCalled("write",
                           FuseArgs(InodeOf(fh), fh, 0, 0, "", 0, ""),
                           fuse_write(fs, InodeOf(fh), fh, offset, data,
                                      fault),
                           fslast.series)

Unlink ==
    \E parent \in Inodes : \E name \in Names :
        FuseCalled("unlink", FuseArgs(parent, 0, 0, 0, name, 0, ""),
                   unlink(fs, parent, name), fslast.series)

FuseNext == OpenFile \/ Release \/ ReadFile \/ WriteFile \/ Unlink

FuseSpec == FuseInit /\ [][FuseNext]_vars

Lookup ==
    \E parent \in Inodes : \E name \in Names :
        FuseCalled("lookup", FuseArgs(parent, 0, 0, 0, name, 0, ""),
                   lookup(fs, parent, name), fslast.series)

Rename ==
    \E parent \in Inodes : \E name \in Names :
        \E newparent \in Inodes : \E newname \in Names :
            FuseCalled("rename",
                       FuseArgs(parent, 0, 0, 0, name, newparent,
                                newname),
                       rename(fs, parent, name, newparent, newname),
                       fslast.series)

\* The orders in which FileRepo::list can return the paths of paths.
Orders(paths) ==
    {order \in [1..Cardinality(paths) -> paths] :
        \A i, j \in 1..Cardinality(paths) :
            order[i] = order[j] => i = j}

\* opendir; an enumeration of the directory starts with the handle.
OpenDir ==
    \E ino \in Inodes : \E fh \in FreeHandles :
        \E listed \in Orders(list(fs, inodes_path(fs, ino))) :
            LET r == opendir(fs, ino, {}, fh, listed)
            IN FuseCalled("opendir",
                          FuseArgs(ino, fh, 0, 0, "", 0, ""),
                          r,
                          IF r.reply = "opened"
                          THEN [NoSeries EXCEPT !.fh = fh]
                          ELSE fslast.series)

\* The next readdir of the enumeration under way: it passes offset 0 at
\* first and then the offset attached to the last entry received; a reply
\* without entries ends the enumeration.
ReadDir ==
    LET series == fslast.series IN
    /\ series.fh \in DOMAIN fs.handles
    /\ ~series.done
    /\ series.calls < MaxReaddirs
    /\ \E fits \in 1..MaxReply :
          LET r == readdir(fs, series.fh, series.cursor, fits)
              names == [i \in 1..Len(r.data) |-> r.data[i].file_name]
          IN FuseCalled("readdir",
                        FuseArgs(fs.handles[series.fh].ino, series.fh,
                                 series.cursor, fits, "", 0, ""),
                        r,
                        IF r.reply # "ok" THEN series
                        ELSE IF r.data = <<>>
                        THEN [series EXCEPT !.done = TRUE,
                                            !.calls = @ + 1]
                        ELSE [series EXCEPT
                                 !.seen = @ \o names,
                                 !.cursor = r.data[Len(r.data)].offset,
                                 !.calls = @ + 1])

DirNext == OpenDir \/ ReadDir \/ Release \/ Unlink

DirSpec == DirInit /\ [][DirNext]_vars

RenameNext == Lookup \/ Rename \/ Unlink

RenameSpec == DirInit /\ [][RenameNext]_vars

(***************************************************************************)
(* Properties.                                                             *)
(***************************************************************************)
\* The content of the object before the last operation.
PreContent == Content(pre.handle.chunks)

\* The content of the object now.
NowContent == Content(handle.chunks)

\* C1: after seek(p); write(W); flush() on an object with content B and
\* p + len(W) <= len(B), the content is B[0..p] || W || B[p+len(W)..].
OverwriteInMiddle ==
    (swf.stage = 3 /\ swf.p + Len(swf.W) <= Len(swf.B) /\ last.res = "Ok")
        => NowContent = Slice(swf.B, 0, swf.p) \o swf.W
                           \o Slice(swf.B, swf.p + Len(swf.W), Len(swf.B))

\* C2: after seek(p) with p <= len(B), a write(W) with p + len(W) > len(B)
\* and the flush after it complete successfully and leave the content
\* B[0..p] || W with size p + len(W).
WritePastEndAppends ==
    (swf.stage >= 2 /\ swf.p + Len(swf.W) > Len(swf.B))
        => /\ last.res = "Ok"
           /\ swf.stage = 3 =>
                 /\ NowContent = Slice(swf.B, 0, swf.p) \o swf.W
                 /\ handle.size = swf.p + Len(swf.W)

\* C3: on a newly inserted object, write(B); flush(); seek(0) and reads
\* until read returns 0 complete and yield exactly B.
RoundTripNewObject ==
    /\ rt.stage >= 1 => last.res = "Ok"
    /\ rt.stage = 5 => rt.out = rt.B

\* C4: after every completed operation the size field of the handle is the
\* sum of the sizes of the chunks in its chunk list.
SizeIsSumOfChunks ==
    last.res # "panic" => handle.size = SumSizes(handle.chunks)

\* C5: truncate(n) with n < len(B) that returns Ok leaves the content
\* B[0..n], size() = n and the seek position n.
TruncateResult ==
    (last.op = "truncate" /\ last.res = "Ok" /\ ~pre.dirty
         /\ last.n < Len(PreContent))
        => /\ NowContent = Slice(PreContent, 0, last.n)
           /\ size(Self) = last.n
           /\ position = last.n

\* C6: with no write pending, truncate(n) with n >= size leaves the chunk
\* list, the size and the content as they were.
TruncateNoOp ==
    (last.op = "truncate" /\ ~pre.dirty /\ last.n >= pre.handle.size)
        => /\ handle.chunks = pre.handle.chunks
           /\ handle.size = pre.handle.size
           /\ NowContent = PreContent

\* C7: the state (content, size, position) after truncate(n); truncate(n)
\* is the state after the first truncate(n).
TruncateIdempotent ==
    tt.stage = 2
        => /\ last.res = "Ok"
           /\ NowContent = tt.content
           /\ handle.size = tt.size
           /\ position = tt.position

\* The location of the chunk at the position the last operation started at.
PreLocation == current_chunk(pre.handle.chunks, pre.position)

\* C8: read with a buffer of length L returns n = min(L, bytes remaining in
\* the current chunk), copies those n bytes and advances the position by n;
\* it does not panic when the chunk yields fewer than L bytes.
ShortRead ==
    (last.op = "read" /\ Found(PreLocation))
        => LET from == relative_position(PreLocation)
               n == Min(last.n, PreLocation.chunk.size - from)
           IN /\ last.res = "Ok"
              /\ last.ret = n
              /\ last.data = Slice(read_chunk(PreLocation.chunk.hash),
                                   from, from + n)
              /\ position = pre.position + n

\* The bytes between that position and the end of that chunk.
PreRemaining == PreLocation.chunk.size - relative_position(PreLocation)

\* C9: on an object whose position lies in a chunk, a read with a non-empty
\* buffer (no longer than the rest of that chunk, unless the position is
\* the end of that chunk) that returns, returns 0 exactly when the position
\* is the object size; before the end, also on a boundary between two
\* chunks, it returns at least one byte, the next bytes of the content.
ReadZeroOnlyAtEnd ==
    (last.op = "read" /\ last.n > 0 /\ ~pre.dirty /\ Found(PreLocation)
         /\ pre.handle.size = Len(PreContent)
         /\ PreRemaining \in {0} \cup (last.n)..MaxChunkSize)
        => /\ last.res = "Ok"
                 => (last.ret = 0 <=> pre.position = pre.handle.size)
           /\ pre.position < pre.handle.size
                 => /\ last.res = "Ok"
                    /\ last.ret > 0
                    /\ last.data = Slice(PreContent, pre.position,
                                         pre.position + last.ret)

\* The position the last seek asked for: Start counts from 0, Current from
\* the position, End back from the size (the size after the flush of seek).
SeekTarget ==
    CASE last.whence = "Start" -> last.n
      [] last.whence = "Current" -> pre.position + last.n
      [] OTHER -> handle.size - last.n

\* A seek has returned (Ok or an error).
SeekReturned == last.op = "seek" /\ last.res # "panic"

\* The last seek asked for a position past the end of the object.
SeekPastEnd ==
    last.whence \in {"Start", "Current"} /\ SeekTarget > handle.size

\* C10: a seek to a target above the object size (Start, Current) or below
\* 0 returns InvalidInput, a seek to the object size succeeds.
OutOfRangeSeekIsError ==
    SeekReturned
        => /\ (SeekPastEnd \/ SeekTarget < 0) => last.res = "InvalidInput"
           /\ SeekTarget = handle.size => last.res = "Ok"

\* C10 amended: a seek to a target below 0 returns InvalidInput; a seek to
\* the object size succeeds; a seek to a target above the object size
\* (Start, Current) succeeds too, returns the size and leaves the position
\* at the size.
SeekClampsPastEnd ==
    SeekReturned
        => /\ SeekTarget < 0 => last.res = "InvalidInput"
           /\ SeekTarget = handle.size => last.res = "Ok"
           /\ SeekPastEnd
                 => /\ last.res = "Ok"
                    /\ last.ret = handle.size
                    /\ position = handle.size

\* A seek past the end of an object has returned.
SeekClampsPastEndWitness ==
    /\ SeekReturned
    /\ SeekPastEnd
    /\ handle.size > 0
    /\ position = handle.size

\* The last call was seek(SeekFrom::End(last.n)) and it returned.
SeekEndReturned == SeekReturned /\ last.whence = "End"

\* C11: seek(End(offset)) with 0 <= offset <= s on an object of size s with
\* no pending write sets the position to s - offset and returns it.
SeekFromEnd ==
    (SeekEndReturned /\ ~pre.dirty /\ pre.handle.size = Len(PreContent)
         /\ 0 <= last.n /\ last.n <= pre.handle.size)
        => /\ last.res = "Ok"
           /\ position = pre.handle.size - last.n
           /\ last.ret = pre.handle.size - last.n

\* C12: seek(End(offset)) with a negative offset returns an error and
\* leaves the position where it was.
SeekEndNegativeFails ==
    (SeekEndReturned /\ last.n < 0)
        => /\ last.res = "InvalidInput"
           /\ position = pre.position

\* C12 amended: seek(End(offset)) with a negative offset returns Ok with
\* the object size and leaves the position at the object size; the
\* seek(End(offset)) that returns InvalidInput is the one with offset
\* greater than the object size, and it leaves the position where it was.
SeekEndNegativeClamps ==
    SeekEndReturned
        => /\ last.n < 0
                 => /\ last.res = "Ok"
                    /\ last.ret = handle.size
                    /\ position = handle.size
           /\ last.n > handle.size
                 => /\ last.res = "InvalidInput"
                    /\ position = pre.position

\* seek(End(offset)) with a negative offset has returned on an object that
\* is not empty, from a position before its end.
SeekEndNegativeClampsWitness ==
    /\ SeekEndReturned
    /\ last.n < 0
    /\ last.res = "Ok"
    /\ pre.position < handle.size
    /\ position = handle.size

\* Header::write was killed, and not within its write of the pointer.
Interrupted == hpc = "crashed" /\ ~hw.torn

\* Header::write has not yet started to write the pointer.
BeforePointerWrite == hw.at \in {"seek", "pad", "len", "header"}

\* C13: when Header::write is killed before the pointer at offset 0 is
\* overwritten, Header::read returns what it returned before the call (the
\* header committed before, when there is one);
\* when it is killed after the pointer write, Header::read returns the new
\* header; the statements before the pointer write leave every byte the
\* archive had before the call as it was.
CrashAtomicity ==
    /\ (hpc # "idle" /\ BeforePointerWrite)
          => SubSeq(archive, 1, Len(hw.start)) = hw.start
    /\ (Interrupted /\ BeforePointerWrite)
          => /\ header_read(archive).res = hw.before.res
             /\ header_read(archive).header = hw.before.header
    /\ (Interrupted /\ hw.at = "pointer" /\ hw.before.res = "Ok")
          => /\ header_read(archive).res = "Ok"
             /\ header_read(archive).header = hw.header

\* Header::write has returned Ok on an archive with a committed header, and
\* nothing was written since.
WriteReturned ==
    hpc = "idle" /\ hret.called /\ header_read(hret.start).res = "Ok"

\* C14: after Header::write(H) returned Ok on an archive of any length,
\* Header::read returns a header equal to H.
WriteReadRoundTrip ==
    WriteReturned
        => /\ header_read(archive).res = "Ok"
           /\ header_read(archive).header = hret.header

\* C15: after Header::write returned Ok, the 8 bytes at offset 0 hold,
\* big-endian, the offset at which the length prefix of the new header
\* begins, and that offset is a multiple of the block size.
SuperblockLayout ==
    WriteReturned
        => /\ from_be_bytes(SubSeq(archive, 1, U64Size)) = hret.header_start
           /\ hret.header_start % BLOCK_SIZE = 0

\* C16: at every point, is_valid() of a savepoint is true if and only if
\* neither commit nor rollback was performed on the repository since the
\* savepoint was taken and the repository still exists.
ValidUntilEndOfTransaction ==
    \A i \in 1..Len(savepoints) :
        is_valid(savepoints[i].sp)
            <=> (~savepoints[i].ended /\ repo.exists)

\* A savepoint is invalid after a commit or a rollback while one taken
\* after it is valid.
ValidUntilEndOfTransactionWitness ==
    /\ Len(savepoints) = 2
    /\ savepoints[1].ended
    /\ ~is_valid(savepoints[1].sp)
    /\ is_valid(savepoints[2].sp)

\* The last call was restore of a savepoint taken before a commit or a
\* rollback.
RestoredInvalid ==
    /\ splast.op = "restore"
    /\ savepoints[splast.arg].ended

\* C17: restore of an invalid savepoint returns false and leaves the
\* current header, the committed header and the validity of every other
\* savepoint as they were.
RestoreInvalidFails ==
    RestoredInvalid
        => /\ splast.ret = FALSE
           /\ repo.header = splast.header
           /\ repo.committed = splast.committed
           /\ Validity = splast.valid

\* restore of an invalid savepoint has returned in a repository whose
\* current header is not the header of that savepoint, while another
\* savepoint is valid.
RestoreInvalidFailsWitness ==
    /\ RestoredInvalid
    /\ savepoints[splast.arg].taken # splast.header
    /\ \E j \in 1..Len(savepoints) : j # splast.arg /\ splast.valid[j]

\* The last call was restore of a savepoint taken in the current
\* transaction.
RestoredValid ==
    /\ splast.op = "restore"
    /\ ~savepoints[splast.arg].ended

\* C18: restore of a valid savepoint, whether taken before or after the
\* savepoint restored last and whatever was written since it was taken,
\* makes the state of the repository the state at the time it was taken.
UndoRedo ==
    RestoredValid
        => /\ splast.ret = TRUE
           /\ repo.header = savepoints[splast.arg].taken

\* restore(A) and then restore(B) have returned, B taken after A and after
\* a write, from a state that was neither that of A nor that of B.
UndoRedoWitness ==
    /\ RestoredValid
    /\ splast.prev # 0
    /\ splast.prev < splast.arg
    /\ savepoints[splast.prev].taken # savepoints[splast.arg].taken
    /\ splast.header = savepoints[splast.prev].taken
    /\ repo.header = savepoints[splast.arg].taken

\* The last call was verify.
Verified == last.op = "verify"

\* read_chunk returned data for the chunk i that does not hash to the
\* checksum recorded for it.
Differs(i) ==
    reads[i].res = "Ok" /\ chunk_hash(reads[i].data) # handle.chunks[i].hash

\* read_chunk returned data for the chunk i that hashes to its checksum.
Matches(i) ==
    reads[i].res = "Ok" /\ chunk_hash(reads[i].data) = handle.chunks[i].hash

WriteFailed == last.op \in {"write", "flush"} /\ last.res = "Io"

\* C20: when write or flush returns an error propagated from the chunk
\* store, the ObjectHandle of the key, its chunk list and its size, is
\* what it was before the call.
FailedWriteKeepsHandle == WriteFailed => handle = pre.handle

\* flush has failed after a write whose chunks are pending, on an object
\* that is not empty.
FailedWriteKeepsHandleWitness ==
    /\ WriteFailed
    /\ last.op = "flush"
    /\ pre.dirty
    /\ new_chunks # <<>>
    /\ handle.chunks # <<>>

\* The sum of the sizes of the first n chunks of the handle: where the
\* chunk with the 0-based index n starts.
StartOf(n) == SumSizes(SubSeq(handle.chunks, 1, n))

\* The position p lies within the chunk with the 0-based index i, ends
\* included.
Within(p, i) == StartOf(i) <= p /\ p <= StartOf(i) + handle.chunks[i + 1].size

\* C27: for a chunk list that is not empty and every position p from 0 to
\* the sum of the chunk sizes, current_chunk returns the chunk with the
\* smallest index whose range, ends included, holds p, with that range as
\* start and end: the lower chunk on a boundary, the last chunk at the end.
ChunkLocationIsLowest ==
    handle.chunks # <<>>
        => \A p \in 0..SumSizes(handle.chunks) :
              LET loc == current_chunk(handle.chunks, p) IN
              /\ Found(loc)
              /\ Within(p, loc.index)
              /\ \A j \in 0..(loc.index - 1) : ~Within(p, j)
              /\ loc.chunk = handle.chunks[loc.index + 1]
              /\ loc.start = StartOf(loc.index)
              /\ loc.end = loc.start + loc.chunk.size
              /\ loc.position = p
              /\ (loc.index + 1 < Len(handle.chunks) /\ p = loc.end)
                    => Within(p, loc.index + 1)
              /\ p = SumSizes(handle.chunks)
                    => loc.index = Len(handle.chunks) - 1

\* The handle has a boundary between two chunks that are not empty, after
\* calls that changed its chunk list.
ChunkLocationIsLowestWitness ==
    /\ last.op # "none"
    /\ handle.chunks # pre.handle.chunks
    /\ Len(handle.chunks) >= 2
    /\ handle.chunks[1].size > 0
    /\ handle.chunks[2].size > 0
    /\ current_chunk(handle.chunks, handle.chunks[1].size).index = 0

\* flush has returned Ok.
Flushed == last.op = "flush" /\ last.res = "Ok"

\* C30: a successful flush leaves the seek position where it was and
\* leaves new_chunks empty.
FlushFrame == Flushed => (position = pre.position /\ new_chunks = <<>>)

\* flush has returned Ok after a write, away from position 0, and has
\* changed the chunk list.
FlushFrameWitness ==
    /\ Flushed
    /\ pre.dirty
    /\ position > 0
    /\ handle.chunks # pre.handle.chunks

\* The last call is a write that returned Ok and follows another write with
\* no flush in between.
LaterWrite == last.op = "write" /\ last.res = "Ok" /\ pre.dirty

\* C28: a write that follows a write of the same run does not record the
\* start mark again and adds the caller's bytes, and no others, to the
\* bytes pending in the chunker and in new_chunks.
StartMarkOnce ==
    LaterWrite =>
        /\ start_location = pre.self.start_location
        /\ PendingBytes(Self) = PendingBytes(pre.self) + Len(last.buf)

\* The last call is a seek that started with written data pending and
\* did not panic.
SeekAfterWrite == last.op = "seek" /\ pre.dirty /\ last.res # "panic"

\* The result of flush and then the same seek, from the state the last
\* seek started in.
FlushThenSeek == seek(flush(pre.self).self, last.whence, last.n)

\* C29: a seek that directly follows a write leaves the content that
\* flush and then the same seek leave, and returns the same.
SeekFlushesFirst ==
    SeekAfterWrite =>
        /\ FlushThenSeek.res = last.res
        /\ FlushThenSeek.ret = last.ret
        /\ Content(FlushThenSeek.self.handle.chunks) = NowContent

\* The Object was dropped with written data pending.
Dropped == last.op = "drop" /\ pre.dirty

\* C21: the drop of an Object with written data pending leaves the handle
\* that flush leaves from the same state, and when the flush of the drop
\* gets an error of the chunk store the drop ends as one without error.
DropFlushes ==
    Dropped =>
        /\ last.whence = "" => handle = flush(pre.self).self.handle
        /\ last.whence = "Io" =>
              /\ last.res = "Ok"
              /\ handle = flush_failing(pre.self, last.n).self.handle

\* An Object was dropped with written data pending, and the flush of the
\* drop changed the chunk list of the handle.
DropFlushesWitness ==
    /\ Dropped
    /\ last.whence = ""
    /\ last.res = "Ok"
    /\ PendingBytes(pre.self) > 0
    /\ handle.chunks # pre.handle.chunks

\* flush or truncate has returned Ok.
ListReplaced == last.op \in {"flush", "truncate"} /\ last.res = "Ok"

\* C22: after flush and after truncate, the refcount of every chunk is the
\* number of references to it from the chunk list of the handle.
RefcountConsistency ==
    ListReplaced => refcount = References(handle.chunks)

\* The version the last call found stored in the bucket.
StoredVersion == from_slice(get_object(s3last.before, VersionKey).bytes)

\* open was called on a bucket whose version object is a UUID other than
\* the current one, and every request was answered.
OpenedOtherFormat ==
    /\ s3last.op = "open"
    /\ s3last.fault = NoFault
    /\ s3last.before[VersionKey].present
    /\ StoredVersion.some
    /\ StoredVersion.uuid # CURRENT_VERSION

\* C24: open of a store whose version is a UUID other than the current one
\* fails with UnsupportedFormat whatever the options, and leaves the
\* version object as it was.
FormatCheckOnOpen ==
    OpenedOtherFormat =>
        /\ s3last.res = "UnsupportedFormat"
        /\ bucket[VersionKey] = s3last.before[VersionKey]

\* open was called with CREATE_NEW on a bucket that holds the current
\* version.
CreateNewOnExisting ==
    /\ s3last.op = "open"
    /\ "CREATE_NEW" \in s3last.options
    /\ s3last.before[VersionKey].present
    /\ StoredVersion.some
    /\ StoredVersion.uuid = CURRENT_VERSION

\* C25: open with CREATE_NEW of a store that holds the current version
\* returns AlreadyExists when its request is answered, and leaves every
\* object of the bucket as it was, with TRUNCATE or without.
CreateNewFails ==
    CreateNewOnExisting =>
        /\ s3last.fault = NoFault => s3last.res = "AlreadyExists"
        /\ bucket = s3last.before

\* open with CREATE_NEW and TRUNCATE has returned AlreadyExists on a store
\* that holds blocks.
CreateNewFailsWitness ==
    /\ CreateNewOnExisting
    /\ "TRUNCATE" \in s3last.options
    /\ s3last.res = "AlreadyExists"
    /\ list_blocks(s3last.before) = BlockIds

\* open with TRUNCATE has returned Ok.
OpenedTruncated ==
    s3last.op = "open" /\ s3last.res = "Ok" /\ "TRUNCATE" \in s3last.options

\* C26: after open with TRUNCATE returns Ok, list_blocks returns no ID and
\* read_block finds no block, the version object holds the current
\* version, and an open without CREATE and CREATE_NEW that follows
\* returns Ok when its requests are answered.
TruncateOnOpen ==
    /\ OpenedTruncated =>
          /\ list_blocks(bucket) = {}
          /\ \A id \in BlockIds : ~read_block(bucket, id).some
          /\ bucket[VersionKey] = Stored(CURRENT_VERSION)
    /\ (/\ s3last.op = "open"
        /\ s3last.after_truncate
        /\ s3last.options \cap {"CREATE", "CREATE_NEW"} = {}
        /\ s3last.fault = NoFault) => s3last.res = "Ok"

\* open with TRUNCATE has returned Ok on a store that held blocks.
TruncateOnOpenWitness ==
    /\ OpenedTruncated
    /\ list_blocks(s3last.before) = BlockIds
    /\ \E id \in BlockIds : read_block(s3last.before, id).some

\* Header::write has returned and Header::read reads the archive.
Committed == hpc = "idle" /\ hret.called /\ header_read(archive).res = "Ok"

\* The blocks that hold the bytes of the header Header::read finds: its
\* 8-byte length and its payload.
ActiveHeaderBlocks ==
    LET address == header_read(archive).address
    IN BlockAddress_range(address.offset, U64Size + address.header_size)

\* The live set: data_blocks of the header read with header_blocks of the
\* address read.
LiveBlocks ==
    data_blocks(header_read(archive).header)
        \cup header_blocks(header_read(archive).address)

\* C23: the live set derived from a committed header holds every block
\* that holds bytes of the active header, its length and its payload, so
\* none of them is among the blocks of blocks() a clean deletes.
LiveSetHoldsHeader ==
    Committed =>
        /\ ActiveHeaderBlocks \subseteq LiveBlocks
        /\ ActiveHeaderBlocks \cap
               (blocks(header_read(archive).address) \ LiveBlocks) = {}

\* The last call ran flush with no write since the previous flush: a flush,
\* a seek, or a truncate to a length that is not below the size.
FlushNothingPending ==
    /\ ~pre.dirty
    /\ last.res = "Ok"
    /\ \/ last.op \in {"flush", "seek"}
       \/ last.op = "truncate" /\ last.n >= pre.handle.size

\* C34: flush (and hence seek, and truncate with length >= size) called
\* when no write has occurred since the previous flush leaves the byte
\* content, the chunk count and the size of the object unchanged.
FlushWithoutWriteChangesNothing ==
    FlushNothingPending =>
        /\ NowContent = PreContent
        /\ Len(handle.chunks) = Len(pre.handle.chunks)
        /\ handle.size = pre.handle.size

\* The last call panicked in current_chunk: no chunk of the handle it
\* started with has start <= position <= end for the position it started
\* with.
PanickedLocating ==
    /\ last.op \in {"write", "flush", "seek", "read", "truncate"}
    /\ last.res = "panic"
    /\ ~Found(current_chunk(pre.handle.chunks, pre.position))

\* C35: no call on an Object reaches the panic of current_chunk, "The
\* current seek position is past the end of the object.": every call of
\* current_chunk finds a chunk with start <= position <= end.
PositionLocatable == ~PanickedLocating

\* The last seek returned the InvalidInput error.
SeekFailed == last.op = "seek" /\ last.res = "InvalidInput"

\* C36: when seek returns an InvalidInput error the seek position is the
\* position before the call.
FailedSeekKeepsPosition == SeekFailed => position = pre.position

\* A seek from the current position, away from position 0, has returned
\* InvalidInput.
FailedSeekKeepsPositionWitness ==
    /\ SeekFailed
    /\ last.whence = "Current"
    /\ pre.position > 0

\* A savepoint that was not valid before the last call is not valid now.
InvalidStaysInvalid ==
    \A i \in 1..Len(splast.valid) :
        ~splast.valid[i] => ~is_valid(savepoints[i].sp)

\* A clone is valid exactly when the savepoint it was made of is.
CloneSharesValidity ==
    \A i \in 1..Len(savepoints) :
        savepoints[i].origin # 0 =>
            (is_valid(savepoints[i].sp)
                 <=> is_valid(savepoints[savepoints[i].origin].sp))

\* C37: a savepoint for which is_valid has returned false stays not valid
\* over every later call (commit, rollback, new savepoints, drop of the
\* repository), and a clone of a savepoint is valid exactly when the
\* original is.
ValidityMonotoneAndShared == InvalidStaysInvalid /\ CloneSharesValidity

\* A savepoint and its clone were both valid, and the end of the
\* transaction has made both not valid while the repository lives on.
ValidityMonotoneAndSharedWitness ==
    /\ repo.exists
    /\ splast.op \in {"commit", "rollback"}
    /\ Len(savepoints) = 2
    /\ savepoints[2].origin = 1
    /\ splast.valid = <<TRUE, TRUE>>
    /\ Validity = <<FALSE, FALSE>>

\* The write handler has replied with an error.
FuseWriteFailed == fslast.op = "write" /\ fslast.reply = "error"

\* C31: when the FUSE write handler replies with an error, the content of
\* the file, with what is written to its Object, is the content before the
\* call: no byte of the call stays written.
WriteAllOrNothing ==
    FuseWriteFailed => FileOf(fs, fslast.ino) = fslast.staged

\* The read handler was called through a file handle on a file that has a
\* path, with an offset within the file, and has not replied with an
\* error.
ReadServed ==
    /\ fslast.op = "read"
    /\ fslast.info.handle_type = "File"
    /\ fslast.linked
    /\ fslast.offset <= Len(fslast.staged)
    /\ fslast.reply # "error"

\* The bytes a read of count bytes at offset is to return.
Requested ==
    Slice(fslast.staged, fslast.offset,
          fslast.offset
              + Min(fslast.count, Len(fslast.staged) - fslast.offset))

\* C32: a read of s bytes at offset o <= n of a file of length n replies
\* with the min(s, n - o) bytes of the file from o on, unless it replies
\* with an error.
ReadReturnsRequested ==
    ReadServed => (fslast.reply = "data" /\ fslast.replied = Requested)

\* read or write was called through a file handle whose inode has been
\* unlinked since the handle was opened.
UnlinkedAccess ==
    /\ fslast.op \in {"read", "write"}
    /\ fslast.info.handle_type = "File"
    /\ fslast.info.ino = fslast.ino
    /\ ~fslast.linked

NoDuplicates ==
    \A i, j \in 1..Len(fslast.series.seen) :
        fslast.series.seen[i] = fslast.series.seen[j] => i = j

\* The names of the children recorded by the opendir of the enumeration.
Recorded ==
    {fs.directories[fslast.series.fh][i].file_name :
        i \in 1..Len(fs.directories[fslast.series.fh])}

\* C38: a series of readdir calls on a directory handle that starts at
\* offset 0 and passes the offset of the last entry received each time
\* receives no child twice, and when a reply holds no entry every child
\* recorded at opendir was received.
EnumerationComplete ==
    /\ NoDuplicates
    /\ fslast.series.done =>
           {fslast.series.seen[i] : i \in 1..Len(fslast.series.seen)}
               = Recorded

\* The rename handler has replied ok.
Renamed == fslast.op = "rename" /\ fslast.reply = "ok"

\* The paths of the source and of the destination of the last rename.
SourcePath == child_path(fs, fslast.ino, fslast.name)

DestPath == child_path(fs, fslast.newparent, fslast.newname)

\* C39: after rename has replied ok, a lookup of the destination replies
\* with an entry and a lookup of the source with an error, and the
\* repository and the inode table both have the destination and not the
\* source.
RenameMovesEntry ==
    Renamed =>
        /\ lookup(fs, fslast.newparent, fslast.newname).reply = "entry"
        /\ lookup(fs, fslast.ino, fslast.name).reply = "error"
        /\ exists(fs, DestPath) /\ ~exists(fs, SourcePath)
        /\ inodes_inode(fs, DestPath) # NoInode
        /\ inodes_inode(fs, SourcePath) = NoInode

====
